---- MODULE Spec2Model ----
(***************************************************************************)
(* VVSFS: bitmap allocators, block mapper, directory store and namespace   *)
(* operations, modelled from src/vvsfs (namei.c, vvsfs.h, bufloc.c,        *)
(* buffer_utils.c, address_space.c, mkfs.vvsfs.c).                         *)
(*                                                                         *)
(* A data block is 256 32-bit words.  A word is kept as the number the     *)
(* host (little endian) reads from its four bytes as an int32_t, so that   *)
(* the big-endian indirect pointers, the host-order inode numbers and the  *)
(* name bytes of a dentry are three views of the same storage.  A uint32_t *)
(* is kept as the int32_t with the same bits: a negative number stands for *)
(* a value of 2^31 or more.                                                *)
(*                                                                         *)
(* Byte arrays (the bitmaps) and word arrays (the blocks) are kept sparse: *)
(* a function that holds the non-zero elements, every other element is 0.  *)
(* Each C function is an operator of the same name; where the function     *)
(* goes on with the result of a call, the rest of it is an operator that   *)
(* takes the result as a parameter.                                        *)
(***************************************************************************)
EXTENDS Integers, Sequences, FiniteSets, TLC

\* ------------------------------------------------------------------------
\* Program constants (src/vvsfs/vvsfs.h)
\* ------------------------------------------------------------------------
VVSFS_BLOCKSIZE == 1024
VVSFS_N_BLOCKS == 15
VVSFS_MAXBLOCKS == 20484
VVSFS_IMAP_SIZE == 512
VVSFS_DMAP_SIZE == 2048
VVSFS_DATA_BLOCK_OFF == 4100
VVSFS_INDIRECT_PTR_SIZE == 4
VVSFS_LAST_DIRECT_BLOCK_INDEX == VVSFS_N_BLOCKS - 1
VVSFS_MAX_INDIRECT_PTRS == VVSFS_BLOCKSIZE \div VVSFS_INDIRECT_PTR_SIZE
VVSFS_MAX_INODE_BLOCKS == VVSFS_N_BLOCKS - 1 + VVSFS_MAX_INDIRECT_PTRS
VVSFS_MAXNAME == 123
VVSFS_DENTRYSIZE == VVSFS_MAXNAME + 1 + 4
VVSFS_N_DENTRY_PER_BLOCK == VVSFS_BLOCKSIZE \div VVSFS_DENTRYSIZE
VVSFS_MAX_DENTRIES == VVSFS_N_DENTRY_PER_BLOCK * VVSFS_MAX_INODE_BLOCKS
VVSFS_SET_MAP_BIT == 128
LAST == VVSFS_LAST_DIRECT_BLOCK_INDEX

\* ------------------------------------------------------------------------
\* Bytes, words, sparse arrays
\* ------------------------------------------------------------------------
\* byte k (0..3, in memory order) of a word
ByteOf(w, k) == (w \div (256 ^ k)) % 256

\* the word whose bytes in memory order are b0 b1 b2 b3
WordOf(b0, b1, b2, b3) ==
    b0 + 256 * b1 + 65536 * b2 + 16777216 * (IF b3 >= 128 THEN b3 - 256 ELSE b3)

\* a < b as uint32_t
ULt(a, b) == IF (a < 0) = (b < 0) THEN a < b ELSE b < 0

\* a + b as uint32_t, for b >= 0
UAdd(a, b) ==
    IF a > 2147483647 - b THEN (a - 2147483647 - 1) + (b - 2147483647 - 1) ELSE a + b

\* element k of a sparse array
At(f, k) == IF k \in DOMAIN f THEN f[k] ELSE 0

\* the sparse array f with element k set to v
SetAt(f, k, v) ==
    IF v = 0 THEN [x \in (DOMAIN f) \ {k} |-> f[x]]
    ELSE IF k \in DOMAIN f THEN [f EXCEPT ![k] = v]
    ELSE (k :> v) @@ f

MinOf(S) == CHOOSE a \in S : \A b \in S : a <= b
Min(a, b) == IF a < b THEN a ELSE b
Max(a, b) == IF a > b THEN a ELSE b

\* ------------------------------------------------------------------------
\* Bitmap allocator (vvsfs.h)
\* ------------------------------------------------------------------------
\* (VVSFS_SET_MAP_BIT >> j)
MapMask(j) == VVSFS_SET_MAP_BIT \div (2 ^ j)

\* (byte & (VVSFS_SET_MAP_BIT >> j)) != 0
MapBit(byte, j) == (byte \div MapMask(j)) % 2 = 1

\* bit pos of a map
MapHas(map, pos) == MapBit(At(map, pos \div 8), pos % 8)

\* a scan that does not skip bit 0 of byte 0: a faulty variant of
\* FreeBitsOfByte, which the reserve property must tell apart
AllFreeBitsOfByte(map, i) == {j \in 0..7 : ~MapBit(At(map, i), j)}

\* the inner loop of vvsfs_find_free_block on byte i: the bits j it would
\* take, bit 0 of byte 0 being skipped
FreeBitsOfByte(map, i) ==
    {j \in 0..7 : ~(i = 0 /\ j = 0) /\ ~MapBit(At(map, i), j)}

\* map[i] = map[i] | (VVSFS_SET_MAP_BIT >> j); return i * 8 + j
TakeBit(map, i, j) ==
    [ret |-> i * 8 + j, map |-> SetAt(map, i, At(map, i) + MapMask(j))]

\* the outer loop from byte i on: the first byte with a bit to take, and in
\* it the first such bit; 0 when there is none
find_free_scan(map, size, i) ==
    IF \A k \in i..(size - 1) : FreeBitsOfByte(map, k) = {}
    THEN [ret |-> 0, map |-> map]
    ELSE LET first == CHOOSE k \in i..(size - 1) :
                         /\ FreeBitsOfByte(map, k) # {}
                         /\ \A x \in i..(k - 1) : FreeBitsOfByte(map, x) = {}
         IN  TakeBit(map, first, MinOf(FreeBitsOfByte(map, first)))

vvsfs_find_free_block(map, size) == find_free_scan(map, size, 0)

\* a free that leaves the bit set: a faulty variant of vvsfs_free_block,
\* which the count of set bits must tell apart
keep_block(map, pos) == map

\* map[i] = map[i] & ~(VVSFS_SET_MAP_BIT >> j); pos is inside the map
vvsfs_free_block(map, pos) ==
    IF MapHas(map, pos)
    THEN SetAt(map, pos \div 8, At(map, pos \div 8) - MapMask(pos % 8))
    ELSE map

\* BNO_TO_INO / INO_TO_BNO
BNO_TO_INO(x) == x + 1
INO_TO_BNO(x) == x - 1

\* the return statements of vvsfs_reserve_inode_block, r the result of
\* vvsfs_find_free_block
reserve_inode_result(r) ==
    [ret |-> IF r.ret = 0 THEN 0 ELSE BNO_TO_INO(r.ret), map |-> r.map]

vvsfs_reserve_inode_block(map) ==
    reserve_inode_result(vvsfs_find_free_block(map, VVSFS_IMAP_SIZE))

vvsfs_free_inode_block(map, ino) == vvsfs_free_block(map, INO_TO_BNO(ino))

vvsfs_reserve_data_block(map) == vvsfs_find_free_block(map, VVSFS_DMAP_SIZE)

vvsfs_free_data_block(map, dno) == vvsfs_free_block(map, dno)

\* the positions whose bit is set in a map
SetBits(map) == {p \in UNION {{8 * i + j : j \in 0..7} : i \in DOMAIN map} : MapHas(map, p)}

\* a formatted bitmap: mkfs sets byte 0 to 1 << 7 and zeroes the rest
FreshMap == 0 :> VVSFS_SET_MAP_BIT

\* ------------------------------------------------------------------------
\* Device blocks.  fs is the mounted volume: imap, dmap (the bitmaps of
\* vvsfs_sb_info), inodes (the in-memory inodes, by inode number), disk (the
\* data blocks that hold a non-zero word, by data-bitmap position; every
\* other block is zero, as mkfs leaves it), badblocks (the positions the
\* device fails to read), junk (the value an uninitialised variable of the
\* call holds), oob (the word behind i_data), ub (undefined
\* behaviour was executed), and the calls made in the current operation:
\* frees, ifrees, deallocs, drops, and log, the calls on buffer heads, link
\* counts and bitmaps in the order they are made.  Errors are named by
\* their errno.
\* ------------------------------------------------------------------------
WordsPerBlock == VVSFS_BLOCKSIZE \div 4
DentryWords == VVSFS_DENTRYSIZE \div 4
ZeroBlock == << >>

Ret(err, fs) == [err |-> err, fs |-> fs]

\* vvsfs_get_data_block: uint32_t arithmetic
vvsfs_get_data_block(bno) == UAdd(bno, VVSFS_DATA_BLOCK_OFF)

\* sb_bread(sb, vvsfs_get_data_block(off)) returns NULL for a block outside
\* the device (VVSFS_MAXBLOCKS blocks, as written by mkfs) or a block the
\* device fails to read.  A position that wraps around to a block below
\* VVSFS_DATA_BLOCK_OFF (bitmaps, inode table) is outside the data area the
\* model holds and is taken as unreadable; no pointer the operations below
\* write with 7-bit names has the top bit set.
sb_bread_ok(fs, off) ==
    /\ ~ULt(vvsfs_get_data_block(off), VVSFS_DATA_BLOCK_OFF)
    /\ ULt(vvsfs_get_data_block(off), VVSFS_MAXBLOCKS)
    /\ off \notin fs.badblocks

\* b_data of the buffer of a data block
BlockData(fs, off) == IF off \in DOMAIN fs.disk THEN fs.disk[off] ELSE ZeroBlock

\* a write through a buffer head: the buffer cache holds one copy per block
WriteBlock(fs, off, blk) ==
    [fs EXCEPT !.disk =
        IF DOMAIN blk = {} THEN [o \in (DOMAIN @) \ {off} |-> @[o]]
        ELSE IF off \in DOMAIN @ THEN [@ EXCEPT ![off] = blk]
        ELSE (off :> blk) @@ @,
             !.log = Append(@, <<"write", off>>)]

\* a call recorded in the log
Ev(fs, e) == [fs EXCEPT !.log = Append(@, e)]

\* sb_bread has returned the buffer of the block at position off
sb_bread(fs, off) == Ev(fs, <<"get", off>>)

brelse(fs, off) == Ev(fs, <<"put", off>>)

mark_buffer_dirty(fs, off) == Ev(fs, <<"dirty", off>>)

\* sync_dirty_buffer writes the buffer as it is to the device
sync_dirty_buffer(fs, off) == Ev(fs, <<"sync", off, BlockData(fs, off)>>)

\* buffer_utils.c: a pointer of an indirect block is stored big endian
ByteSwap(w) == WordOf(ByteOf(w, 3), ByteOf(w, 2), ByteOf(w, 1), ByteOf(w, 0))

write_int_to_buffer(blk, k, data) == SetAt(blk, k, ByteSwap(data))

read_int_from_buffer(blk, k) == ByteSwap(At(blk, k))

\* struct vvsfs_dir_entry: name[124] then inode_number (host order)
DentryIno(blk, d) == At(blk, DentryWords * d + DentryWords - 1)

SetDentryIno(blk, d, ino) == SetAt(blk, DentryWords * d + DentryWords - 1, ino)

\* byte at offset off of a block
BlockByte(blk, off) == ByteOf(At(blk, off \div 4), off % 4)

\* strlen from byte offset off; VVSFS_BLOCKSIZE when no NUL before the end of
\* the buffer
StrLenFrom(blk, off, n) ==
    IF \A k \in n..(VVSFS_BLOCKSIZE - off - 1) : BlockByte(blk, off + k) # 0
    THEN VVSFS_BLOCKSIZE
    ELSE CHOOSE k \in n..(VVSFS_BLOCKSIZE - off - 1) :
            /\ BlockByte(blk, off + k) = 0
            /\ \A x \in n..(k - 1) : BlockByte(blk, off + x) # 0

\* namecmp(dentry->name, target_name, target_name_len); a name is a sequence
\* of bytes
namecmp(blk, d, name) ==
    /\ StrLenFrom(blk, VVSFS_DENTRYSIZE * d, 0) = Len(name)
    /\ \A k \in 1..Len(name) : BlockByte(blk, VVSFS_DENTRYSIZE * d + k - 1) = name[k]

\* strncpy(dent->name, name, len); dent->name[len] = 0: the later bytes of
\* the slot keep their value
SetDentryName(blk, d, name) ==
    LET base == DentryWords * d
        n == Len(name)
        touched == base..(base + (n \div 4))
        nb(w, t) == IF 4 * (w - base) + t < n THEN name[4 * (w - base) + t + 1]
                    ELSE IF 4 * (w - base) + t = n THEN 0
                    ELSE ByteOf(At(blk, w), t)
        val(w) == IF w \in touched THEN WordOf(nb(w, 0), nb(w, 1), nb(w, 2), nb(w, 3))
                  ELSE At(blk, w)
    IN  [w \in {k \in (DOMAIN blk) \cup touched : val(k) # 0} |-> val(w)]

\* memset(dentry, 0, VVSFS_DENTRYSIZE)
ZeroDentry(blk, d) == [w \in {k \in DOMAIN blk : k \div DentryWords # d} |-> blk[w]]

\* memcpy(dst, src, VVSFS_DENTRYSIZE), dst slot d of blk, src slot sd of sblk
CopyDentry(blk, d, sblk, sd) ==
    LET keep == {k \in DOMAIN blk : k \div DentryWords # d}
        from == {k \in DOMAIN sblk : k \div DentryWords = sd}
        into == {DentryWords * d + (k % DentryWords) : k \in from}
    IN  [w \in keep \cup into |->
            IF w \in keep THEN blk[w] ELSE sblk[DentryWords * sd + (w % DentryWords)]]

\* LAST_BLOCK_DENTRY_COUNT
LAST_BLOCK_DENTRY_COUNT(i_size) ==
    IF (i_size \div VVSFS_DENTRYSIZE) % VVSFS_N_DENTRY_PER_BLOCK = 0
    THEN VVSFS_N_DENTRY_PER_BLOCK
    ELSE (i_size \div VVSFS_DENTRYSIZE) % VVSFS_N_DENTRY_PER_BLOCK

\* vvsfs_free_data_block on the volume.  A position outside the map writes
\* outside the dmap array: undefined behaviour.  frees records the position
\* and whether its bit was set.
FreeData(fs, dno) ==
    IF ~ULt(dno, VVSFS_DMAP_SIZE * 8) THEN [fs EXCEPT !.ub = TRUE]
    ELSE [fs EXCEPT !.dmap = vvsfs_free_data_block(@, dno),
                    !.frees = Append(@, <<dno, MapHas(fs.dmap, dno)>>),
                    !.log = Append(@, <<"free", dno>>)]

\* vvsfs_reserve_data_block on the volume, r its result on fs.dmap
reserve_data_result(fs, r) == [ret |-> r.ret, fs |-> [fs EXCEPT !.dmap = r.map]]

ReserveData(fs) == reserve_data_result(fs, vvsfs_reserve_data_block(fs.dmap))

\* vvsfs_free_inode_block on the volume
FreeInode(fs, ino) ==
    [fs EXCEPT !.imap = vvsfs_free_inode_block(@, ino), !.ifrees = Append(@, ino),
               !.log = Append(@, <<"ifree", ino>>)]

\* ------------------------------------------------------------------------
\* Block mapper (namei.c)
\* ------------------------------------------------------------------------
\* the value vvsfs_index_data_block returns, a uint32_t returned as an int:
\* its callers take a negative value for an error
index_result(index) == [err |-> IF index < 0 THEN "ENEG" ELSE "OK", index |-> index]

vvsfs_index_data_block(fs, vi, d_pos) ==
    IF d_pos < LAST THEN index_result(vi.i_data[d_pos])
    ELSE IF ~sb_bread_ok(fs, vi.i_data[LAST]) THEN [err |-> "EIO", index |-> 0]
    ELSE index_result(read_int_from_buffer(BlockData(fs, vi.i_data[LAST]), d_pos - LAST))

\* the buffer of the indirect block vvsfs_index_data_block reads and
\* releases
index_logged(fs, vi, d_pos) ==
    IF d_pos >= LAST /\ sb_bread_ok(fs, vi.i_data[LAST])
    THEN brelse(sb_bread(fs, vi.i_data[LAST]), vi.i_data[LAST])
    ELSE fs

\* vvsfs_assign_data_block from READ_BLOCK on.  indirect_block is
\* uninitialised unless the indirect block was reserved in this call: the
\* position freed is then the value the variable happens to hold, fs.junk.
assign_pointer(fs, ino, d_pos, newblock, reserved_indirect, indirect_block) ==
    IF ~sb_bread_ok(fs, fs.inodes[ino].i_data[LAST])
    THEN [err |-> "EIO", newblock |-> 0,
          fs |-> [(IF reserved_indirect
                   THEN FreeData(FreeData(fs, newblock), indirect_block)
                   ELSE [FreeData(FreeData(fs, newblock), fs.junk) EXCEPT !.ub = TRUE])
                      EXCEPT !.inodes[ino].i_data[LAST] = 0]]
    ELSE [err |-> "OK", newblock |-> newblock,
          fs |-> brelse(sync_dirty_buffer(mark_buffer_dirty(
                     WriteBlock(sb_bread([fs EXCEPT !.inodes[ino].i_db_count = @ + 1],
                                         fs.inodes[ino].i_data[LAST]),
                                fs.inodes[ino].i_data[LAST],
                                write_int_to_buffer(
                                    BlockData(fs, fs.inodes[ino].i_data[LAST]),
                                    d_pos - LAST, newblock)),
                     fs.inodes[ino].i_data[LAST]), fs.inodes[ino].i_data[LAST]),
                     fs.inodes[ino].i_data[LAST])]

\* the payload block taken as the 15th direct block, the first reservation
\* given back
assign_direct_last(ino, d_pos, r1, r2) ==
    IF r2.ret = 0
    THEN [err |-> "ENOSPC", newblock |-> 0, fs |-> FreeData(r1.fs, r1.ret)]
    ELSE [err |-> "OK", newblock |-> r2.ret,
          fs |-> [FreeData(r2.fs, r1.ret) EXCEPT !.inodes[ino].i_data[LAST] = r2.ret,
                                                 !.inodes[ino].i_db_count = @ + 1]]

\* a failure of the second reservation that keeps the first: a faulty
\* variant of assign_with_indirect, which the state of the data bitmap after
\* ENOSPC must tell apart
assign_keeps_first(ino, d_pos, r1, r2) ==
    IF r2.ret = 0
    THEN [err |-> "ENOSPC", newblock |-> 0, fs |-> r1.fs]
    ELSE assign_pointer([r2.fs EXCEPT !.inodes[ino].i_data[LAST] = r1.ret],
                        ino, d_pos, r2.ret, TRUE, r1.ret)

\* after the second vvsfs_reserve_data_block (r2), made when the inode has
\* no indirect block; r1 is the first, which becomes the indirect block
assign_with_indirect(ino, d_pos, r1, r2) ==
    IF r2.ret = 0
    THEN [err |-> "ENOSPC", newblock |-> 0, fs |-> FreeData(r1.fs, r1.ret)]
    ELSE assign_pointer([r2.fs EXCEPT !.inodes[ino].i_data[LAST] = r1.ret],
                        ino, d_pos, r2.ret, TRUE, r1.ret)

\* after the first vvsfs_reserve_data_block (r1)
assign_reserved(fs, ino, d_pos, r1) ==
    IF r1.ret = 0 THEN [err |-> "ENOSPC", newblock |-> 0, fs |-> fs]
    ELSE IF d_pos < LAST
    THEN [err |-> "OK", newblock |-> r1.ret,
          fs |-> [r1.fs EXCEPT !.inodes[ino].i_data[d_pos] = r1.ret,
                               !.inodes[ino].i_db_count = @ + 1]]
    ELSE IF fs.inodes[ino].i_db_count < VVSFS_N_BLOCKS
    THEN assign_with_indirect(ino, d_pos, r1, ReserveData(r1.fs))
    ELSE assign_pointer(r1.fs, ino, d_pos, r1.ret, FALSE, 0)

vvsfs_assign_data_block(fs, ino, d_pos) == assign_reserved(fs, ino, d_pos, ReserveData(fs))

\* memmove(&a[dst], &a[src], count elements) on i_data; the element behind
\* the array (read when src + count > VVSFS_N_BLOCKS) is fs.oob
MoveData(fs, i_data, dst, src, count) ==
    [k \in 0..(VVSFS_N_BLOCKS - 1) |->
        IF k >= dst /\ k < dst + count
        THEN IF src + (k - dst) < VVSFS_N_BLOCKS THEN i_data[src + (k - dst)]
             ELSE fs.oob
        ELSE i_data[k]]

\* memmove of count pointers inside an indirect block
MoveWords(blk, dst, src, count) ==
    LET val(w) == IF w >= dst /\ w < dst + count THEN At(blk, src + (w - dst))
                  ELSE At(blk, w)
    IN  [w \in {k \in (DOMAIN blk) \cup (dst..(dst + count - 1)) : val(k) # 0} |-> val(w)]

\* vvsfs_shift_direct_only, n1 the decremented i_db_count (a uint32_t); a
\* count that wrapped around moves memory far outside i_data
shift_direct_apply(fs, ino, block_index, n1) ==
    IF ~(ULt(n1, VVSFS_N_BLOCKS) /\ n1 - block_index >= 0)
    THEN [fs EXCEPT !.ub = TRUE, !.inodes[ino].i_db_count = n1]
    ELSE [fs EXCEPT !.inodes[ino].i_db_count = n1,
                    !.inodes[ino].i_data =
                        [MoveData(fs, @, block_index, block_index + 1, n1 - block_index)
                            EXCEPT ![n1] = 0]]

vvsfs_shift_direct_only(fs, ino, block_index) ==
    shift_direct_apply(fs, ino, block_index, fs.inodes[ino].i_db_count - 1)

\* the end of vvsfs_shift_indirect_only: moved is the indirect block after
\* the memmove, bh its position
shift_indirect_tail(fs, ino, n1, bh, moved) ==
    brelse(mark_buffer_dirty(
               IF n1 = VVSFS_N_BLOCKS
               THEN FreeData(WriteBlock(fs, bh, moved), fs.inodes[ino].i_data[LAST])
               ELSE WriteBlock(fs, bh, write_int_to_buffer(moved, n1 - LAST, 0)),
               bh), bh)

\* vvsfs_shift_indirect_only, n1 the decremented i_db_count; block_index
\* is used as the index into the indirect block, as in the source
shift_indirect_apply(fs, ino, block_index, n1, bh) ==
    shift_indirect_tail(
        [fs EXCEPT !.inodes[ino].i_db_count = n1,
                   !.ub = @ \/ ~(n1 - block_index >= 0 /\ n1 + 1 <= WordsPerBlock)],
        ino, n1, bh,
        IF n1 - block_index > 0 /\ n1 + 1 <= WordsPerBlock
        THEN MoveWords(BlockData(fs, bh), block_index, block_index + 1, n1 - block_index)
        ELSE BlockData(fs, bh))

vvsfs_shift_indirect_only(fs, ino, block_index) ==
    shift_indirect_apply(fs, ino, block_index, fs.inodes[ino].i_db_count - 1,
                         fs.inodes[ino].i_data[LAST])

\* vvsfs_shift_blocks_back from "if (vi->i_db_count ==
\* VVSFS_LAST_DIRECT_BLOCK_INDEX)" on
shift_cross_tail(fs, ino, block_index, n1, bh) ==
    IF n1 = LAST
    THEN [FreeData(brelse(fs, bh), fs.inodes[ino].i_data[LAST])
             EXCEPT !.inodes[ino].i_data[LAST] = 0]
    ELSE brelse(mark_buffer_dirty(
             WriteBlock(fs, bh,
                write_int_to_buffer(
                    IF block_index - LAST > 0
                    THEN MoveWords(BlockData(fs, bh), 0, 1, block_index - LAST)
                    ELSE BlockData(fs, bh),
                    n1 - LAST, 0)),
             bh), bh)

\* vvsfs_shift_blocks_back when the hole is a direct block and the inode
\* has an indirect block.  With block_index < VVSFS_LAST_DIRECT_BLOCK_INDEX
\* the memmove reads one element behind i_data.
shift_cross(fs, ino, block_index, n1, bh, blk) ==
    IF block_index < LAST
    THEN shift_cross_tail(
            WriteBlock([fs EXCEPT !.inodes[ino].i_db_count = n1,
                                  !.inodes[ino].i_data =
                                      [MoveData(fs, @, block_index, block_index + 1,
                                                VVSFS_N_BLOCKS - block_index)
                                          EXCEPT ![LAST - 2] = read_int_from_buffer(blk, 0)],
                                  !.ub = TRUE],
                       bh, write_int_to_buffer(blk, n1 - LAST, 0)),
            ino, block_index, n1, bh)
    ELSE shift_cross_tail([fs EXCEPT !.inodes[ino].i_db_count = n1],
                          ino, block_index, n1, bh)

vvsfs_shift_blocks_back(fs, ino, block_index) ==
    IF fs.inodes[ino].i_db_count < VVSFS_N_BLOCKS
    THEN Ret("OK", vvsfs_shift_direct_only(fs, ino, block_index))
    ELSE IF ~sb_bread_ok(fs, fs.inodes[ino].i_data[LAST]) THEN Ret("EIO", fs)
    ELSE IF block_index >= VVSFS_N_BLOCKS
    THEN Ret("OK", vvsfs_shift_indirect_only(sb_bread(fs, fs.inodes[ino].i_data[LAST]),
                                             ino, block_index))
    ELSE Ret("OK", shift_cross(sb_bread(fs, fs.inodes[ino].i_data[LAST]),
                               ino, block_index, fs.inodes[ino].i_db_count - 1,
                               fs.inodes[ino].i_data[LAST],
                               BlockData(fs, fs.inodes[ino].i_data[LAST])))

\* a deallocation that keeps the block: a faulty variant of
\* dealloc_indexed, which the block count of a directory must tell apart
dealloc_kept(fs, ino, block_index, raw) == Ret("OK", fs)

\* vvsfs_dealloc_data_block after vvsfs_index_data_block (raw)
dealloc_indexed(fs, ino, block_index, raw) ==
    IF raw.err # "OK" THEN Ret(raw.err, fs)
    ELSE vvsfs_shift_blocks_back(FreeData(fs, raw.index), ino, block_index)

\* deallocs records block_index and the i_db_count of the call
vvsfs_dealloc_data_block(fs, ino, block_index) ==
    IF block_index < 0 \/ block_index >= VVSFS_MAX_INODE_BLOCKS THEN Ret("EINVAL", fs)
    ELSE dealloc_indexed(
            index_logged(
                [fs EXCEPT !.deallocs = Append(@, <<block_index, fs.inodes[ino].i_db_count>>)],
                fs.inodes[ino], block_index),
            ino, block_index,
            vvsfs_index_data_block(fs, fs.inodes[ino], block_index))

\* ------------------------------------------------------------------------
\* Directory store (namei.c).  A bufloc is b_index, d_index and bh, the
\* data-bitmap position of the block the retained buffer holds; the dentry
\* pointer is slot d_index of that buffer.
\* ------------------------------------------------------------------------
NoLoc == [b_index |-> 0, d_index |-> 0, bh |-> 0]

Found(b_index, d_index, bh) ==
    [err |-> "OK", loc |-> [b_index |-> b_index, d_index |-> d_index, bh |-> bh]]

\* vvsfs_find_entry_in_block: the first slot d < dentry_count with
\* inode_number != 0 and a matching name, or -1
RECURSIVE vvsfs_find_entry_in_block(_, _, _, _)
vvsfs_find_entry_in_block(blk, dentry_count, name, d) ==
    IF d >= dentry_count THEN -1
    ELSE IF DentryIno(blk, d) = 0 \/ ~namecmp(blk, d, name)
         THEN vvsfs_find_entry_in_block(blk, dentry_count, name, d + 1)
         ELSE d

\* current_block_dentry_count: i is compared with i_db_count - 1
BlockDentryCount(vi, i) ==
    IF i = vi.i_db_count - 1 THEN LAST_BLOCK_DENTRY_COUNT(vi.i_size)
    ELSE VVSFS_N_DENTRY_PER_BLOCK

RECURSIVE vvsfs_find_entry_direct(_, _, _, _)
vvsfs_find_entry_direct(fs, vi, name, i) ==
    IF i >= Min(vi.i_db_count, LAST) THEN [err |-> "NOTFOUND", loc |-> NoLoc]
    ELSE IF ~sb_bread_ok(fs, vi.i_data[i]) THEN [err |-> "EIO", loc |-> NoLoc]
    ELSE LET d == vvsfs_find_entry_in_block(BlockData(fs, vi.i_data[i]),
                                            BlockDentryCount(vi, i), name, 0)
         IN  IF d >= 0 THEN Found(i, d, vi.i_data[i])
             ELSE vvsfs_find_entry_direct(fs, vi, name, i + 1)

\* the loop of vvsfs_find_entry_indirect stops at pointer c: its block is
\* not read, or the name is in it
find_entry_indirect_stop(fs, vi, name, ib, c) ==
    \/ ~sb_bread_ok(fs, read_int_from_buffer(ib, c))
    \/ vvsfs_find_entry_in_block(BlockData(fs, read_int_from_buffer(ib, c)),
                                 BlockDentryCount(vi, c), name, 0) >= 0

\* the loop of vvsfs_find_entry_indirect at the pointer it stops at
find_entry_indirect_at(fs, vi, name, ib, c) ==
    IF ~sb_bread_ok(fs, read_int_from_buffer(ib, c))
    THEN [err |-> "EIO", loc |-> NoLoc]
    ELSE Found(c + LAST,
               vvsfs_find_entry_in_block(BlockData(fs, read_int_from_buffer(ib, c)),
                                         BlockDentryCount(vi, c), name, 0),
               read_int_from_buffer(ib, c))

\* the loop of vvsfs_find_entry_indirect from pointer i on; i counts from 0
\* inside the indirect block ib
find_entry_indirect_loop(fs, vi, name, ib, i) ==
    IF \A c \in i..(vi.i_db_count - LAST - 1) :
          ~find_entry_indirect_stop(fs, vi, name, ib, c)
    THEN [err |-> "NOTFOUND", loc |-> NoLoc]
    ELSE find_entry_indirect_at(fs, vi, name, ib,
             CHOOSE c \in i..(vi.i_db_count - LAST - 1) :
                /\ find_entry_indirect_stop(fs, vi, name, ib, c)
                /\ \A x \in i..(c - 1) : ~find_entry_indirect_stop(fs, vi, name, ib, x))

vvsfs_find_entry_indirect(fs, vi, name) ==
    IF ~sb_bread_ok(fs, vi.i_data[LAST]) THEN [err |-> "EIO", loc |-> NoLoc]
    ELSE find_entry_indirect_loop(fs, vi, name, BlockData(fs, vi.i_data[LAST]), 0)

\* vvsfs_find_entry after vvsfs_find_entry_direct (r)
find_entry_rest(fs, vi, name, r) ==
    IF r.err # "NOTFOUND" THEN r ELSE vvsfs_find_entry_indirect(fs, vi, name)

vvsfs_find_entry(fs, dir, name) ==
    find_entry_rest(fs, fs.inodes[dir], name,
                    vvsfs_find_entry_direct(fs, fs.inodes[dir], name, 0))

\* the first of the n direct blocks of vi that sb_bread fails on; n when it
\* reads them all
FirstUnreadDirect(fs, vi, n) ==
    IF \A i \in 0..(n - 1) : sb_bread_ok(fs, vi.i_data[i]) THEN n
    ELSE CHOOSE i \in 0..(n - 1) :
            /\ ~sb_bread_ok(fs, vi.i_data[i])
            /\ \A x \in 0..(i - 1) : sb_bread_ok(fs, vi.i_data[x])

\* the same for the first m pointers of the indirect block ib
FirstUnreadPointer(fs, ib, m) ==
    IF \A c \in 0..(m - 1) : sb_bread_ok(fs, read_int_from_buffer(ib, c)) THEN Max(m, 0)
    ELSE CHOOSE c \in 0..(m - 1) :
            /\ ~sb_bread_ok(fs, read_int_from_buffer(ib, c))
            /\ \A x \in 0..(c - 1) : sb_bread_ok(fs, read_int_from_buffer(ib, x))

\* sb_bread and brelse of the blocks a loop of vvsfs_find_entry visits:
\* pos(k) is the position of the k-th, read of them are read, and the last
\* one is kept (BL_PERSIST_BUFFER) when the entry is found in it
VisitEvents(pos(_), read, kept) ==
    [e \in 1..(2 * read - (IF kept THEN 1 ELSE 0)) |->
        IF e % 2 = 1 THEN <<"get", pos((e - 1) \div 2)>>
        ELSE <<"put", pos((e - 2) \div 2)>>]

\* the calls of vvsfs_find_entry_direct on the way to the result r of
\* vvsfs_find_entry
FindDirectEvents(fs, vi, r) ==
    LET pos(k) == vi.i_data[k]
    IN  IF r.err = "OK" /\ r.loc.b_index < LAST
        THEN VisitEvents(pos, r.loc.b_index + 1, TRUE)
        ELSE VisitEvents(pos, FirstUnreadDirect(fs, vi, Min(vi.i_db_count, LAST)), FALSE)

\* the calls of vvsfs_find_entry_indirect: none when the direct loop found
\* the entry or failed; i_bh is released on every return
FindIndirectEvents(fs, vi, r) ==
    LET ib == BlockData(fs, vi.i_data[LAST])
        pos(k) == read_int_from_buffer(ib, k)
    IN  IF (r.err = "OK" /\ r.loc.b_index < LAST)
            \/ FirstUnreadDirect(fs, vi, Min(vi.i_db_count, LAST)) < Min(vi.i_db_count, LAST)
            \/ ~sb_bread_ok(fs, vi.i_data[LAST])
        THEN <<>>
        ELSE <<<<"get", vi.i_data[LAST]>>>>
             \o (IF r.err = "OK" THEN VisitEvents(pos, r.loc.b_index - LAST + 1, TRUE)
                 ELSE VisitEvents(pos, FirstUnreadPointer(fs, ib, vi.i_db_count - LAST),
                                  FALSE))
             \o <<<<"put", vi.i_data[LAST]>>>>

\* the volume after vvsfs_find_entry on inode vi returned r
find_logged(fs, vi, r) ==
    [fs EXCEPT !.log = @ \o FindDirectEvents(fs, vi, r) \o FindIndirectEvents(fs, vi, r)]

vvsfs_delete_entry_last_block(fs, dir, bufloc) ==
    LET lbdc == LAST_BLOCK_DENTRY_COUNT(fs.inodes[dir].i_size)
        blk == BlockData(fs, bufloc.bh)
    IN  IF bufloc.d_index # lbdc - 1
        THEN Ret("OK", WriteBlock(fs, bufloc.bh,
                          ZeroDentry(CopyDentry(blk, bufloc.d_index, blk, lbdc - 1),
                                     lbdc - 1)))
        ELSE IF lbdc = 1
        THEN vvsfs_dealloc_data_block(
                 WriteBlock(fs, bufloc.bh, ZeroDentry(blk, bufloc.d_index)),
                 dir, bufloc.b_index)
        ELSE Ret("OK", WriteBlock(fs, bufloc.bh, ZeroDentry(blk, bufloc.d_index)))

\* the end of vvsfs_delete_entry_block and of vvsfs_delete_entry_bufloc:
\* mark_buffer_dirty and brelse of the buffer bh, which an earlier return
\* (r failed) leaves out
delete_release(bh, r) ==
    IF r.err # "OK" THEN r ELSE Ret("OK", brelse(mark_buffer_dirty(r.fs, bh), bh))

\* vvsfs_delete_entry_block after the memcpy: the last dentry (slot
\* lbdc - 1 of block bh) is zeroed, its block deallocated if it was alone
delete_zero_last(fs, dir, bh, lbdc) ==
    delete_release(bh,
        IF lbdc = 1
        THEN vvsfs_dealloc_data_block(
                 WriteBlock(fs, bh, ZeroDentry(BlockData(fs, bh), lbdc - 1)),
                 dir, fs.inodes[dir].i_db_count - 1)
        ELSE Ret("OK", WriteBlock(fs, bh, ZeroDentry(BlockData(fs, bh), lbdc - 1))))

\* vvsfs_delete_entry_block once the last block of the directory (bh) is read
delete_move_last(fs, dir, bufloc, bh) ==
    IF ~sb_bread_ok(fs, bh) THEN Ret("EIO", fs)
    ELSE delete_zero_last(
            WriteBlock(sb_bread(fs, bh), bufloc.bh,
                CopyDentry(BlockData(fs, bufloc.bh), bufloc.d_index, BlockData(fs, bh),
                           LAST_BLOCK_DENTRY_COUNT(fs.inodes[dir].i_size) - 1)),
            dir, bh, LAST_BLOCK_DENTRY_COUNT(fs.inodes[dir].i_size))

\* vvsfs_delete_entry_block with the indirect block read (i_bh): it is
\* released once the last block (bh) is read or not
delete_indirect_last(fs, dir, bufloc, bh) ==
    IF ~sb_bread_ok(fs, bh) THEN Ret("EIO", brelse(fs, fs.inodes[dir].i_data[LAST]))
    ELSE delete_zero_last(
            WriteBlock(brelse(sb_bread(fs, bh), fs.inodes[dir].i_data[LAST]), bufloc.bh,
                CopyDentry(BlockData(fs, bufloc.bh), bufloc.d_index, BlockData(fs, bh),
                           LAST_BLOCK_DENTRY_COUNT(fs.inodes[dir].i_size) - 1)),
            dir, bh, LAST_BLOCK_DENTRY_COUNT(fs.inodes[dir].i_size))

\* with i_db_count = 0 the direct case reads i_data[-1]
vvsfs_delete_entry_block(fs, dir, bufloc) ==
    LET vi == fs.inodes[dir]
    IN  IF vi.i_db_count < VVSFS_N_BLOCKS
        THEN IF vi.i_db_count >= 1
             THEN delete_move_last(fs, dir, bufloc, vi.i_data[vi.i_db_count - 1])
             ELSE delete_move_last([fs EXCEPT !.ub = TRUE], dir, bufloc, fs.oob)
        ELSE IF ~sb_bread_ok(fs, vi.i_data[LAST]) THEN Ret("EIO", fs)
        ELSE delete_indirect_last(sb_bread(fs, vi.i_data[LAST]), dir, bufloc,
                 read_int_from_buffer(BlockData(fs, vi.i_data[LAST]),
                                      vi.i_db_count - VVSFS_N_BLOCKS))

\* a delete that takes every entry for one of the last block: a faulty
\* variant of vvsfs_delete_entry_bufloc, which the index of the deallocated
\* block must tell apart
delete_always_last(fs, dir, bufloc) ==
    delete_release(bufloc.bh,
        IF vvsfs_delete_entry_last_block(fs, dir, bufloc).err # "OK"
        THEN vvsfs_delete_entry_last_block(fs, dir, bufloc)
        ELSE Ret("OK", [vvsfs_delete_entry_last_block(fs, dir, bufloc).fs
                           EXCEPT !.inodes[dir].i_size = @ - VVSFS_DENTRYSIZE]))

\* the end of vvsfs_delete_entry_bufloc, r the result of the delete
delete_finish(dir, bufloc, r) ==
    delete_release(bufloc.bh,
        IF r.err # "OK" THEN r
        ELSE Ret("OK", [r.fs EXCEPT !.inodes[dir].i_size = @ - VVSFS_DENTRYSIZE]))

\* vvsfs_resolve_bufloc returns at once for a bufloc found with
\* BL_PERSIST_BUFFER | BL_PERSIST_DENTRY, the flags of every caller
vvsfs_delete_entry_bufloc(fs, dir, bufloc) ==
    delete_finish(dir, bufloc,
        IF bufloc.b_index = fs.inodes[dir].i_db_count - 1
        THEN vvsfs_delete_entry_last_block(fs, dir, bufloc)
        ELSE vvsfs_delete_entry_block(fs, dir, bufloc))

\* ------------------------------------------------------------------------
\* Inode lifecycle (namei.c)
\* ------------------------------------------------------------------------
RECURSIVE FreeDirect(_, _, _, _)
FreeDirect(fs, vi, i, n) ==
    IF i >= n THEN fs ELSE FreeDirect(FreeData(fs, vi.i_data[i]), vi, i + 1, n)

\* a loop that frees none of the blocks the indirect pointers name: a
\* faulty variant of FreeIndirect, which the property of the last drop
\* must tell apart
FreeNoIndirect(fs, blk, i, n) == fs

\* the pointers are read from the buffer obtained before the loop
RECURSIVE FreeIndirect(_, _, _, _)
FreeIndirect(fs, blk, i, n) ==
    IF i >= n THEN fs
    ELSE FreeIndirect(FreeData(fs, read_int_from_buffer(blk, i)), blk, i + 1, n)

\* vvsfs_free_inode_blocks after the loop over the direct blocks (f1)
free_after_direct(f1, vi, ino) ==
    IF Max(0, vi.i_db_count - LAST) = 0 THEN Ret("OK", FreeInode(f1, ino))
    ELSE IF ~sb_bread_ok(f1, vi.i_data[LAST]) THEN Ret("EIO", f1)
    ELSE Ret("OK",
             FreeInode(FreeData(brelse(FreeIndirect(sb_bread(f1, vi.i_data[LAST]),
                                                    BlockData(f1, vi.i_data[LAST]), 0,
                                                    Max(0, vi.i_db_count - LAST)),
                                       vi.i_data[LAST]),
                                vi.i_data[LAST]),
                       ino))

vvsfs_free_inode_blocks(fs, ino) ==
    IF fs.inodes[ino].i_nlink # 0 THEN Ret("EIO", fs)
    ELSE free_after_direct(
            FreeDirect(fs, fs.inodes[ino], 0, Min(LAST, fs.inodes[ino].i_db_count)),
            fs.inodes[ino], ino)

\* the bits that are set in map a and clear in map b
ClearedBits(a, b) == SetBits(a) \ SetBits(b)

\* the data-bitmap positions an inode refers to: its direct slots, the
\* pointers of its indirect block (blk) and the indirect block
OwnedBlocks(vi, blk) ==
    {vi.i_data[k] : k \in 0..(Min(vi.i_db_count, LAST) - 1)}
    \cup (IF vi.i_db_count > LAST
          THEN {vi.i_data[LAST]}
               \cup {read_int_from_buffer(blk, k) : k \in 0..(vi.i_db_count - LAST - 1)}
          ELSE {})

\* vvsfs_drop_inode_link after inode_dec_link_count
drop_dec(f1, ino) ==
    IF f1.inodes[ino].i_nlink = 0 THEN vvsfs_free_inode_blocks(f1, ino)
    ELSE Ret("OK", f1)

\* drops records the inode as it was before the call (vi), the positions
\* it referred to and what the call (result r) did to the two bitmaps
drop_record(fs, ino, vi, owned, r) ==
    Ret(r.err,
        [r.fs EXCEPT !.drops = Append(@,
            [ino |-> ino, vi |-> vi, err |-> r.err, owned |-> owned,
             dstill |-> {p \in owned : MapHas(r.fs.dmap, p)},
             istill |-> MapHas(r.fs.imap, INO_TO_BNO(ino)),
             dcleared |-> ClearedBits(fs.dmap, r.fs.dmap),
             icleared |-> ClearedBits(fs.imap, r.fs.imap)])])

vvsfs_drop_inode_link(fs, ino) ==
    drop_record(fs, ino, fs.inodes[ino],
                OwnedBlocks(fs.inodes[ino], BlockData(fs, fs.inodes[ino].i_data[LAST])),
                drop_dec(Ev([fs EXCEPT !.inodes[ino].i_nlink = @ - 1],
                            <<"nlink", ino, fs.inodes[ino].i_nlink - 1>>), ino))

\* the in-memory inode vvsfs_new_inode fills in
NewInode(mode, dno) ==
    [i_mode |-> mode, i_size |-> 0, i_nlink |-> 1, i_db_count |-> 1,
     i_data |-> [k \in 0..(VVSFS_N_BLOCKS - 1) |-> IF k = 0 THEN dno ELSE 0]]

\* vvsfs_new_inode after vvsfs_reserve_data_block (rd); f1 is the volume
\* with inode ino reserved
new_inode_dno(f1, ino, mode, rd) ==
    IF rd.ret = 0 THEN [err |-> "ENOSPC", ret |-> 0, fs |-> FreeInode(f1, ino)]
    ELSE [err |-> "OK", ret |-> ino,
          fs |-> [rd.fs EXCEPT !.inodes = (ino :> NewInode(mode, rd.ret)) @@ @]]

\* vvsfs_new_inode after vvsfs_reserve_inode_block (ri)
new_inode_ino(fs, mode, ri) ==
    IF ri.ret = 0 THEN [err |-> "ENOSPC", ret |-> 0, fs |-> fs]
    ELSE new_inode_dno([fs EXCEPT !.imap = ri.map], ri.ret, mode,
                       ReserveData([fs EXCEPT !.imap = ri.map]))

\* vvsfs_new_inode: ret is the inode number, 0 on failure
vvsfs_new_inode(fs, mode) == new_inode_ino(fs, mode, vvsfs_reserve_inode_block(fs.imap))

\* vvsfs_add_new_entry from READ_BLOCK_OFF(sb, dno) on
add_write(fs, dir, name, ino, num_dirs, dno) ==
    IF ~sb_bread_ok(fs, dno) THEN Ret("ENOMEM", fs)
    ELSE Ret("OK",
             [brelse(sync_dirty_buffer(mark_buffer_dirty(
                  WriteBlock(sb_bread(fs, dno), dno,
                      SetDentryIno(SetDentryName(BlockData(fs, dno),
                                                 num_dirs % VVSFS_N_DENTRY_PER_BLOCK, name),
                                   num_dirs % VVSFS_N_DENTRY_PER_BLOCK, ino)),
                  dno), dno), dno)
                 EXCEPT !.inodes[dir].i_size = (num_dirs + 1) * VVSFS_DENTRYSIZE])

\* after vvsfs_assign_data_block (a)
add_assigned(dir, name, ino, num_dirs, a) ==
    IF a.err # "OK" THEN Ret(a.err, a.fs)
    ELSE add_write(a.fs, dir, name, ino, num_dirs, a.newblock)

\* after vvsfs_index_data_block (r)
add_indexed(fs, dir, name, ino, num_dirs, r) ==
    IF r.err # "OK" THEN Ret(r.err, fs)
    ELSE add_write(fs, dir, name, ino, num_dirs, r.index)

\* vvsfs_add_new_entry that refuses a directory only past the largest
\* number of entries: a faulty variant of add_at, which an add to a full
\* directory must tell apart
add_at_late(fs, dir, name, ino, num_dirs, d_pos) ==
    IF num_dirs > VVSFS_MAX_DENTRIES THEN Ret("ENOSPC", fs)
    ELSE IF ~ULt(d_pos, fs.inodes[dir].i_db_count)
    THEN add_assigned(dir, name, ino, num_dirs, vvsfs_assign_data_block(fs, dir, d_pos))
    ELSE add_indexed(index_logged(fs, fs.inodes[dir], d_pos), dir, name, ino, num_dirs,
                     vvsfs_index_data_block(fs, fs.inodes[dir], d_pos))

add_at(fs, dir, name, ino, num_dirs, d_pos) ==
    IF num_dirs >= VVSFS_MAX_DENTRIES THEN Ret("ENOSPC", fs)
    ELSE IF ~ULt(d_pos, fs.inodes[dir].i_db_count)
    THEN add_assigned(dir, name, ino, num_dirs, vvsfs_assign_data_block(fs, dir, d_pos))
    ELSE add_indexed(index_logged(fs, fs.inodes[dir], d_pos), dir, name, ino, num_dirs,
                     vvsfs_index_data_block(fs, fs.inodes[dir], d_pos))

vvsfs_add_new_entry(fs, dir, name, ino) ==
    add_at(fs, dir, name, ino, fs.inodes[dir].i_size \div VVSFS_DENTRYSIZE,
           (fs.inodes[dir].i_size \div VVSFS_DENTRYSIZE) \div VVSFS_N_DENTRY_PER_BLOCK)

\* discard_new_inode / eviction of an inode whose link count is 0
Forget(fs, ino) ==
    IF ino \in DOMAIN fs.inodes /\ fs.inodes[ino].i_nlink = 0
    THEN [fs EXCEPT !.inodes = [i \in (DOMAIN @) \ {ino} |-> @[i]]]
    ELSE fs

\* vvsfs_create that leaves the new inode reserved when the add fails
create_kept(n, a) ==
    IF a.err # "OK" THEN [err |-> a.err, ino |-> 0, fs |-> Forget(a.fs, n.ret)]
    ELSE [err |-> "OK", ino |-> n.ret, fs |-> a.fs]

\* ------------------------------------------------------------------------
\* Namespace operations (namei.c).  The inode arguments are d_inode of the
\* dentries the VFS passes in.
\* ------------------------------------------------------------------------
\* vvsfs_create after vvsfs_add_new_entry (a); n is the result of
\* vvsfs_new_inode
create_added(n, a) ==
    IF a.err # "OK"
    THEN [err |-> a.err, ino |-> 0,
          fs |-> Forget(vvsfs_drop_inode_link(a.fs, n.ret).fs, n.ret)]
    ELSE [err |-> "OK", ino |-> n.ret, fs |-> a.fs]

\* vvsfs_create after vvsfs_new_inode (n); on its failure the source calls
\* brelse on an uninitialised bh
create_new(dir, name, n) ==
    IF n.err # "OK" THEN [err |-> "ENOSPC", ino |-> 0, fs |-> [n.fs EXCEPT !.ub = TRUE]]
    ELSE create_added(n, vvsfs_add_new_entry(n.fs, dir, name, n.ret))

vvsfs_create(fs, dir, name, mode) ==
    IF Len(name) > VVSFS_MAXNAME THEN [err |-> "ENAMETOOLONG", ino |-> 0, fs |-> fs]
    ELSE create_new(dir, name, vvsfs_new_inode(fs, mode))

vvsfs_mkdir(fs, dir, name) == vvsfs_create(fs, dir, name, "S_IFDIR")

\* memcpy of bytes to the start of a block: the later bytes keep their value
WriteBytes(blk, bytes) ==
    LET n == Len(bytes)
        touched == 0..((n - 1) \div 4)
        nb(w, t) == IF 4 * w + t < n THEN bytes[4 * w + t + 1] ELSE ByteOf(At(blk, w), t)
        val(w) == IF w \in touched THEN WordOf(nb(w, 0), nb(w, 1), nb(w, 2), nb(w, 3))
                  ELSE At(blk, w)
    IN  [w \in {k \in (DOMAIN blk) \cup touched : val(k) # 0} |-> val(w)]

\* page_symlink(inode, symname, strlen(symname) + 1) for a target shorter
\* than a block: the page cache maps logical block 0 through
\* vvsfs_file_get_block (0 < i_db_count, no allocation), reads the block,
\* copies the target over its start and sets i_size; the block is taken as
\* written back
page_symlink(fs, ino, symname) ==
    Ret("OK",
        [WriteBlock(fs, vvsfs_index_data_block(fs, fs.inodes[ino], 0).index,
                    WriteBytes(BlockData(fs, vvsfs_index_data_block(
                                                 fs, fs.inodes[ino], 0).index),
                               symname))
            EXCEPT !.inodes[ino].i_size = Len(symname)])

\* write(2) of bytes at offset 0 of a file, shorter than a block:
\* vvsfs_write_begin (block_write_begin) maps logical block 0 through
\* vvsfs_file_get_block without allocation and reads it, the bytes are
\* copied over its start, vvsfs_write_end (generic_write_end) raises i_size;
\* the block is taken as written back
vvsfs_write(fs, ino, bytes) ==
    Ret("OK",
        [WriteBlock(fs, vvsfs_index_data_block(fs, fs.inodes[ino], 0).index,
                    WriteBytes(BlockData(fs, vvsfs_index_data_block(
                                                 fs, fs.inodes[ino], 0).index),
                               bytes))
            EXCEPT !.inodes[ino].i_size = Max(@, Len(bytes))])

\* vvsfs_symlink after page_symlink (w); n is the result of vvsfs_new_inode
symlink_written(dir, name, n, w) ==
    IF w.err # "OK"
    THEN [err |-> w.err, ino |-> 0,
          fs |-> Forget(vvsfs_drop_inode_link(w.fs, n.ret).fs, n.ret)]
    ELSE create_added(n, vvsfs_add_new_entry(w.fs, dir, name, n.ret))

\* vvsfs_symlink after vvsfs_new_inode (n); on its failure the source calls
\* brelse on an uninitialised bh
symlink_new(dir, name, symname, n) ==
    IF n.err # "OK" THEN [err |-> "ENOSPC", ino |-> 0, fs |-> [n.fs EXCEPT !.ub = TRUE]]
    ELSE symlink_written(dir, name, n, page_symlink(n.fs, n.ret, symname))

vvsfs_symlink(fs, dir, name, symname) ==
    IF Len(name) > VVSFS_MAXNAME THEN [err |-> "ENAMETOOLONG", ino |-> 0, fs |-> fs]
    ELSE symlink_new(dir, name, symname, vvsfs_new_inode(fs, "S_IFLNK"))

\* vvsfs_mknod; valid_dev is old_valid_dev(rdev)
vvsfs_mknod(fs, dir, name, mode, valid_dev) ==
    IF ~valid_dev THEN [err |-> "EINVAL", ino |-> 0, fs |-> fs]
    ELSE IF Len(name) > VVSFS_MAXNAME THEN [err |-> "ENAMETOOLONG", ino |-> 0, fs |-> fs]
    ELSE create_new(dir, name, vvsfs_new_inode(fs, mode))

\* vvsfs_link without the check of the length of the name
link_unchecked(fs, inode, dir, name) ==
    LET a == vvsfs_add_new_entry([fs EXCEPT !.inodes[inode].i_nlink = @ + 1],
                                 dir, name, inode)
    IN  IF a.err # "OK" THEN Ret(a.err, [a.fs EXCEPT !.inodes[inode].i_nlink = @ - 1])
        ELSE Ret("OK", a.fs)

\* vvsfs_link after vvsfs_add_new_entry (a)
link_added(inode, a) ==
    IF a.err # "OK" THEN Ret(a.err, [a.fs EXCEPT !.inodes[inode].i_nlink = @ - 1])
    ELSE Ret("OK", a.fs)

vvsfs_link(fs, inode, dir, name) ==
    IF Len(name) > VVSFS_MAXNAME THEN Ret("ENAMETOOLONG", fs)
    ELSE link_added(inode,
            vvsfs_add_new_entry([fs EXCEPT !.inodes[inode].i_nlink = @ + 1],
                                dir, name, inode))

\* vvsfs_unlink after vvsfs_drop_inode_link (l)
unlink_dropped(inode, l) == Ret(l.err, Forget(l.fs, inode))

\* vvsfs_unlink after vvsfs_delete_entry_bufloc (d)
unlink_deleted(inode, d) ==
    IF d.err # "OK" THEN d ELSE unlink_dropped(inode, vvsfs_drop_inode_link(d.fs, inode))

\* vvsfs_unlink after vvsfs_find_entry (f)
unlink_found(fs, dir, inode, f) ==
    IF f.err # "OK" THEN Ret("ENOENT", fs)
    ELSE unlink_deleted(inode, vvsfs_delete_entry_bufloc(fs, dir, f.loc))

vvsfs_unlink(fs, dir, name, inode) ==
    IF Len(name) > VVSFS_MAXNAME THEN Ret("ENAMETOOLONG", fs)
    ELSE unlink_found(find_logged(fs, fs.inodes[dir], vvsfs_find_entry(fs, dir, name)),
                      dir, inode, vvsfs_find_entry(fs, dir, name))

\* IS_NON_RESERVED_DENTRY(name, inumber, inode); '.' is byte 46
IS_NON_RESERVED_DENTRY(blk, d, ino) ==
    /\ DentryIno(blk, d) # 0
    /\ \/ BlockByte(blk, VVSFS_DENTRYSIZE * d) # 46
       \/ (BlockByte(blk, VVSFS_DENTRYSIZE * d + 1) = 0 /\ DentryIno(blk, d) # ino)
       \/ BlockByte(blk, VVSFS_DENTRYSIZE * d + 1) # 46
       \/ BlockByte(blk, VVSFS_DENTRYSIZE * d + 2) # 0

vvsfs_dir_only_reserved(blk, ino, dentry_count) ==
    \A d \in 0..(dentry_count - 1) : ~IS_NON_RESERVED_DENTRY(blk, d, ino)

\* vvsfs_empty_dir: 1 or 0, or a negative errno (ret -1, named by err).  The
\* loop reads i_data[i] for every i < i_db_count, also for i >= 14; beyond
\* the array the read is undefined (err "EUB")
RECURSIVE empty_dir_loop(_, _, _, _)
empty_dir_loop(fs, ino, vi, i) ==
    IF i >= vi.i_db_count THEN [ret |-> 1, err |-> "OK"]
    ELSE IF i >= VVSFS_N_BLOCKS THEN [ret |-> -1, err |-> "EUB"]
    ELSE IF ~sb_bread_ok(fs, vi.i_data[i]) THEN [ret |-> -1, err |-> "EIO"]
    ELSE IF ~vvsfs_dir_only_reserved(BlockData(fs, vi.i_data[i]), ino,
                                     BlockDentryCount(vi, i))
    THEN [ret |-> 0, err |-> "OK"]
    ELSE empty_dir_loop(fs, ino, vi, i + 1)

\* the blocks the loop of vvsfs_empty_dir reads, each released before the
\* next is read or the function returns
RECURSIVE empty_dir_reads(_, _, _, _)
empty_dir_reads(fs, ino, vi, i) ==
    IF i >= vi.i_db_count \/ i >= VVSFS_N_BLOCKS \/ ~sb_bread_ok(fs, vi.i_data[i]) THEN fs
    ELSE IF ~vvsfs_dir_only_reserved(BlockData(fs, vi.i_data[i]), ino,
                                     BlockDentryCount(vi, i))
    THEN brelse(sb_bread(fs, vi.i_data[i]), vi.i_data[i])
    ELSE empty_dir_reads(brelse(sb_bread(fs, vi.i_data[i]), vi.i_data[i]), ino, vi, i + 1)

\* the volume after vvsfs_empty_dir
empty_dir_logged(fs, ino) ==
    IF fs.inodes[ino].i_mode # "S_IFDIR" THEN fs
    ELSE empty_dir_reads(fs, ino, fs.inodes[ino], 0)

\* a check that finds every directory empty: a faulty variant of
\* vvsfs_empty_dir, which a rename over a directory with entries must tell
\* apart
empty_dir_always(fs, ino) == [ret |-> 1, err |-> "OK"]

vvsfs_empty_dir(fs, ino) ==
    IF fs.inodes[ino].i_mode # "S_IFDIR" THEN [ret |-> -1, err |-> "ENOTDIR"]
    ELSE empty_dir_loop(fs, ino, fs.inodes[ino], 0)

\* vvsfs_rmdir after vvsfs_unlink (u); the inode is gone from the inode
\* table once its last link is dropped
rmdir_unlinked(inode, u) ==
    IF u.err # "OK" THEN u
    ELSE IF inode \in DOMAIN u.fs.inodes
    THEN Ret("OK", [u.fs EXCEPT !.inodes[inode].i_size = 0])
    ELSE u

vvsfs_rmdir(fs, dir, name, inode) ==
    IF vvsfs_empty_dir(fs, inode).ret = 0 THEN Ret("ENOTEMPTY", empty_dir_logged(fs, inode))
    ELSE rmdir_unlinked(inode, vvsfs_unlink(empty_dir_logged(fs, inode), dir, name, inode))

\* the data-bitmap position of logical block b as vvsfs_read_dentries_direct
\* and vvsfs_read_dentries_indirect compute it
ReadDentriesBlock(fs, vi, b) ==
    IF b < LAST THEN vi.i_data[b]
    ELSE read_int_from_buffer(BlockData(fs, vi.i_data[LAST]), b - LAST)

\* vvsfs_read_dentries fails when a block cannot be read
vvsfs_read_dentries_ok(fs, vi) ==
    /\ \A b \in 0..(vi.i_db_count - 1) : sb_bread_ok(fs, ReadDentriesBlock(fs, vi, b))
    /\ vi.i_db_count >= VVSFS_N_BLOCKS => sb_bread_ok(fs, vi.i_data[LAST])

\* the loop of vvsfs_lookup over the slots of one block: the first slot
\* whose name matches, or -1
RECURSIVE lookup_in_block(_, _, _, _)
lookup_in_block(blk, dentry_count, name, d) ==
    IF d >= dentry_count THEN -1
    ELSE IF namecmp(blk, d, name) THEN d
    ELSE lookup_in_block(blk, dentry_count, name, d + 1)

\* the slots of block c the loop of vvsfs_lookup visits
lookup_count(num_dirs, c) ==
    Min(VVSFS_N_DENTRY_PER_BLOCK, num_dirs - c * VVSFS_N_DENTRY_PER_BLOCK)

\* the loop stops in block c: the block is outside the buffer, or the name
\* is in it
lookup_stop(fs, vi, name, num_dirs, c) ==
    \/ c >= vi.i_db_count
    \/ lookup_in_block(BlockData(fs, ReadDentriesBlock(fs, vi, c)),
                       lookup_count(num_dirs, c), name, 0) >= 0

\* the loop in the block it stops in
lookup_at(fs, vi, name, num_dirs, c) ==
    IF c >= vi.i_db_count THEN [err |-> "EUB", ino |-> 0]
    ELSE [err |-> "OK",
          ino |-> DentryIno(BlockData(fs, ReadDentriesBlock(fs, vi, c)),
                            lookup_in_block(BlockData(fs, ReadDentriesBlock(fs, vi, c)),
                                            lookup_count(num_dirs, c), name, 0))]

\* the blocks that hold the first num_dirs slots
lookup_blocks(num_dirs) ==
    (num_dirs + VVSFS_N_DENTRY_PER_BLOCK - 1) \div VVSFS_N_DENTRY_PER_BLOCK

\* the loop of vvsfs_lookup over the buffer of vvsfs_read_dentries, taken
\* block by block: the slots of block b are those of index b * 8 up to
\* num_dirs.  A slot beyond the i_db_count blocks is outside the buffer.
\* The loop from block b on stops in the first block that ends it.
lookup_loop(fs, vi, name, num_dirs, b) ==
    IF \A c \in b..(lookup_blocks(num_dirs) - 1) : ~lookup_stop(fs, vi, name, num_dirs, c)
    THEN [err |-> "OK", ino |-> 0]
    ELSE lookup_at(fs, vi, name, num_dirs,
             CHOOSE c \in b..(lookup_blocks(num_dirs) - 1) :
                /\ lookup_stop(fs, vi, name, num_dirs, c)
                /\ \A x \in b..(c - 1) : ~lookup_stop(fs, vi, name, num_dirs, x))

\* vvsfs_lookup: ino is the inode number attached to the dentry, 0 for a
\* negative dentry
vvsfs_lookup(fs, dir, name) ==
    IF Len(name) > VVSFS_MAXNAME THEN [err |-> "ENAMETOOLONG", ino |-> 0]
    ELSE IF ~vvsfs_read_dentries_ok(fs, fs.inodes[dir]) THEN [err |-> "EIO", ino |-> 0]
    ELSE lookup_loop(fs, fs.inodes[dir], name,
                     fs.inodes[dir].i_size \div VVSFS_DENTRYSIZE, 0)

\* an exchange that drops the link of the previous target before it writes
\* and syncs the dentry: a faulty variant of exchange_found, which the order
\* of the sync and the drop must tell apart
exchange_drop_first(fs, existing_inode, replacement_inode_no, f) ==
    IF f.err # "OK" THEN Ret("ENOENT", fs)
    ELSE Ret("OK",
             Forget(brelse(sync_dirty_buffer(mark_buffer_dirty(
                        WriteBlock(vvsfs_drop_inode_link(fs, existing_inode).fs, f.loc.bh,
                            SetDentryIno(BlockData(fs, f.loc.bh), f.loc.d_index,
                                         replacement_inode_no)),
                        f.loc.bh), f.loc.bh), f.loc.bh),
                    existing_inode))

\* vvsfs_dentry_exchange_inode after vvsfs_find_entry (f); the result of
\* vvsfs_drop_inode_link is not looked at
exchange_found(fs, existing_inode, replacement_inode_no, f) ==
    IF f.err # "OK" THEN Ret("ENOENT", fs)
    ELSE Ret("OK",
             Forget(vvsfs_drop_inode_link(
                        brelse(sync_dirty_buffer(mark_buffer_dirty(
                            WriteBlock(fs, f.loc.bh,
                                SetDentryIno(BlockData(fs, f.loc.bh), f.loc.d_index,
                                             replacement_inode_no)),
                            f.loc.bh), f.loc.bh), f.loc.bh),
                        existing_inode).fs,
                    existing_inode))

vvsfs_dentry_exchange_inode(fs, dir, name, existing_inode, replacement_inode_no) ==
    exchange_found(find_logged(fs, fs.inodes[dir], vvsfs_find_entry(fs, dir, name)),
                   existing_inode, replacement_inode_no,
                   vvsfs_find_entry(fs, dir, name))

\* vvsfs_rename after the new entry is in place (put)
rename_put(old_dir, src, put) ==
    IF put.err # "OK" THEN put
    ELSE vvsfs_delete_entry_bufloc(put.fs, old_dir, src.loc)

\* vvsfs_rename after vvsfs_add_new_entry (a): brelse(src_loc.bh) when it
\* failed
rename_added(src, a) ==
    IF a.err # "OK" THEN Ret(a.err, brelse(a.fs, src.loc.bh)) ELSE a

\* vvsfs_rename after vvsfs_find_entry on the source (src)
rename_found(fs, old_dir, old_inode, new_dir, new_name, new_inode, src) ==
    IF src.err # "OK" THEN Ret("ENOENT", fs)
    ELSE rename_put(old_dir, src,
            IF new_inode # 0
            THEN vvsfs_dentry_exchange_inode(fs, new_dir, new_name, new_inode,
                     DentryIno(BlockData(fs, src.loc.bh), src.loc.d_index))
            ELSE rename_added(src, vvsfs_add_new_entry(fs, new_dir, new_name, old_inode)))

S_ISDIR(fs, i) == fs.inodes[i].i_mode = "S_IFDIR"

\* the volume after the checks of vvsfs_rename: vvsfs_empty_dir is called
\* for a directory renamed over a directory
rename_checked(fs, old_inode, new_inode) ==
    IF new_inode # 0 /\ S_ISDIR(fs, old_inode) /\ S_ISDIR(fs, new_inode)
    THEN empty_dir_logged(fs, new_inode)
    ELSE fs

\* a rename that goes straight to the source entry: a faulty variant of
\* vvsfs_rename without its checks, which the frame of a rename onto the
\* same inode must tell apart
rename_unchecked(fs, old_dir, old_name, old_inode, new_dir, new_name, new_inode, flags) ==
    rename_found(find_logged(fs, fs.inodes[old_dir],
                             vvsfs_find_entry(fs, old_dir, old_name)),
                 old_dir, old_inode, new_dir, new_name, new_inode,
                 vvsfs_find_entry(fs, old_dir, old_name))

\* vvsfs_rename; new_inode = 0 for a negative dentry; flags is a set of
\* flag names
vvsfs_rename(fs, old_dir, old_name, old_inode, new_dir, new_name, new_inode, flags) ==
    IF flags \cap {"RENAME_EXCHANGE", "RENAME_WHITEOUT"} # {} THEN Ret("EINVAL", fs)
    ELSE IF new_inode # 0 /\ new_inode = old_inode THEN Ret("OK", fs)
    ELSE IF Len(new_name) > VVSFS_MAXNAME THEN Ret("ENAMETOOLONG", fs)
    ELSE IF new_inode # 0 /\ "RENAME_NOREPLACE" \in flags THEN Ret("EEXIST", fs)
    ELSE IF new_inode # 0 /\ S_ISDIR(fs, old_inode) /\ S_ISDIR(fs, new_inode)
            /\ vvsfs_empty_dir(fs, new_inode).ret = 0
    THEN Ret("ENOTEMPTY", rename_checked(fs, old_inode, new_inode))
    ELSE IF new_inode # 0 /\ S_ISDIR(fs, old_inode) /\ ~S_ISDIR(fs, new_inode)
    THEN Ret("ENOTDIR", fs)
    ELSE IF ~S_ISDIR(fs, old_inode) /\ new_inode # 0 /\ S_ISDIR(fs, new_inode)
    THEN Ret("EISDIR", fs)
    ELSE rename_found(find_logged(rename_checked(fs, old_inode, new_inode),
                                  fs.inodes[old_dir],
                                  vvsfs_find_entry(fs, old_dir, old_name)),
                      old_dir, old_inode, new_dir, new_name, new_inode,
                      vvsfs_find_entry(fs, old_dir, old_name))

\* map_bh: the buffer of the caller is mapped to block bno of the device
map_bh(fs, bno) == Ev(fs, <<"map", bno>>)

\* vvsfs_file_get_block (address_space.c) after vvsfs_assign_data_block (a)
get_block_assigned(a) ==
    IF a.err # "OK" THEN Ret(a.err, a.fs)
    ELSE Ret("OK", map_bh(a.fs, vvsfs_get_data_block(a.newblock)))

\* vvsfs_file_get_block for a block the file has: the value of
\* vvsfs_index_data_block is used unchecked, -EIO (-5) as a block number
get_block_indexed(fs, x) ==
    Ret("OK", map_bh(fs, vvsfs_get_data_block(IF x.err = "EIO" THEN -5 ELSE x.index)))

get_block_present(fs, vi, iblock) ==
    get_block_indexed(index_logged(fs, vi, iblock), vvsfs_index_data_block(fs, vi, iblock))

\* vvsfs_file_get_block without the check of the largest block index
get_block_unchecked(fs, ino, iblock, create) ==
    IF iblock > fs.inodes[ino].i_db_count THEN Ret("OK", fs)
    ELSE IF iblock = fs.inodes[ino].i_db_count /\ create
    THEN get_block_assigned(vvsfs_assign_data_block(fs, ino, iblock))
    ELSE IF iblock = fs.inodes[ino].i_db_count THEN Ret("OK", fs)
    ELSE get_block_present(fs, fs.inodes[ino], iblock)

\* vvsfs_file_get_block without the test of create: a faulty variant, which
\* a read of the block after the last of a file must tell apart
get_block_creates(fs, ino, iblock, create) ==
    IF iblock >= VVSFS_MAX_INODE_BLOCKS THEN Ret("EFBIG", fs)
    ELSE IF iblock > fs.inodes[ino].i_db_count THEN Ret("OK", fs)
    ELSE IF iblock = fs.inodes[ino].i_db_count
    THEN get_block_assigned(vvsfs_assign_data_block(fs, ino, iblock))
    ELSE get_block_present(fs, fs.inodes[ino], iblock)

\* vvsfs_file_get_block: the block mapping of a file read or write; create
\* is set by a write
vvsfs_file_get_block(fs, ino, iblock, create) ==
    IF iblock >= VVSFS_MAX_INODE_BLOCKS THEN Ret("EFBIG", fs)
    ELSE IF iblock > fs.inodes[ino].i_db_count THEN Ret("OK", fs)
    ELSE IF iblock = fs.inodes[ino].i_db_count /\ create
    THEN get_block_assigned(vvsfs_assign_data_block(fs, ino, iblock))
    ELSE IF iblock = fs.inodes[ino].i_db_count THEN Ret("OK", fs)
    ELSE get_block_present(fs, fs.inodes[ino], iblock)

\* ------------------------------------------------------------------------
\* The volume mkfs.vvsfs writes, as mounted: both bitmaps with bit 0 set,
\* the root inode (number 1) a directory of one block whose i_block is all
\* zero, every data block zero
\* ------------------------------------------------------------------------
ROOT_INO == 1

MkfsVolume ==
    [imap |-> FreshMap,
     dmap |-> FreshMap,
     inodes |-> (ROOT_INO :>
                   [i_mode |-> "S_IFDIR", i_size |-> 0, i_nlink |-> 1, i_db_count |-> 1,
                    i_data |-> [k \in 0..(VVSFS_N_BLOCKS - 1) |-> 0]]),
     disk |-> << >>,
     badblocks |-> {}, junk |-> 0, ub |-> FALSE, oob |-> 0,
     frees |-> <<>>, ifrees |-> <<>>, deallocs |-> <<>>, drops |-> <<>>,
     log |-> <<>>]

\* ------------------------------------------------------------------------
\* Bounds of the exploration
\* ------------------------------------------------------------------------
\* operations applied to a prepared volume
MaxOps == 2
\* calls on the bitmap of the allocator specification
BmMaxCalls == 9
\* sizes (bytes) of that bitmap
BmSizes == {1, 2}
\* the volumes the operations start from, each built after mkfs by
\* <<a, b, c>>: two files are created in the root and hard-linked in turn
\* until the root has a entries, the first file is extended by b blocks,
\* then the c last entries are unlinked again
Seeds == {<<0, 0, 0>>, <<1, 0, 0>>, <<8, 0, 0>>, <<9, 0, 0>>, <<113, 0, 0>>,
          <<120, 0, 0>>, <<121, 0, 0>>, <<121, 0, 1>>,
          <<1, 13, 0>>, <<1, 14, 0>>, <<1, 15, 0>>}
\* names: "x", "y" for files, "d" for directories; the k-th entry of a
\* prepared volume is named by two letters
FileNames == {<<120>>, <<121>>}
DirNames == {<<100>>}
SeedName(k) ==
    IF k < 26 * 26 THEN <<97 + (k \div 26), 97 + (k % 26)>>
    ELSE <<97 + (k \div (26 * 26)), 97 + ((k \div 26) % 26), 97 + (k % 26)>>
RenameFlags == {{}, {"RENAME_NOREPLACE"}}

\* ------------------------------------------------------------------------
\* State.  imap, dmap, inodes, disk: the mounted volume.  plan: the calls
\* left to build a directory tree before the operations start.  ub: an operation
\* has executed undefined behaviour.  last: the last operation, its
\* arguments, its result and the calls it made.  seed: what is left to do
\* to prepare the volume.  steps: operations since it was prepared.
\* bm_*: the bitmap of the allocator specification, the successful
\* reservations and frees made on it and the last call.
\* ------------------------------------------------------------------------
VARIABLES imap, dmap, inodes, disk, ub, last, seed, plan, steps,
          bm_map, bm_size, bm_res, bm_free, bm_last,
          rt, procs

vars == <<imap, dmap, inodes, disk, ub, last, seed, plan, steps,
          bm_map, bm_size, bm_res, bm_free, bm_last, rt, procs>>

volvars == <<imap, dmap, inodes, disk, ub, last, seed, plan, steps>>
bmvars == <<bm_map, bm_size, bm_res, bm_free, bm_last>>
\* the inode written back and loaded again (inode.c, vvsfs_main.c)
rtvars == <<rt>>
\* the processes that reserve in the bitmaps at the same time (vvsfs.h)
procvars == <<procs>>

\* no inode is being written back
NoTrip == [stage |-> "none"]

\* no process is reserving
NoProcs == [run |-> <<>>]

\* a volume with the call records empty
VolOf(im, dm, ino, dk, u) ==
    [MkfsVolume EXCEPT !.imap = im, !.dmap = dm, !.inodes = ino, !.disk = dk, !.ub = u]

\* the volume of the current state
Vol == VolOf(imap, dmap, inodes, disk, ub)

NoOp == [op |-> "mount", err |-> "OK", dir |-> 0, name |-> <<>>, ino |-> 0,
         dir2 |-> 0, name2 |-> <<>>, ino2 |-> 0, flags |-> {},
         iblock |-> 0, create |-> FALSE, bad |-> {},
         frees |-> <<>>, ifrees |-> <<>>, deallocs |-> <<>>, drops |-> <<>>,
         log |-> <<>>]

\* the state after an operation with result r (err and the volume it left)
Commit(r, rec) ==
    /\ imap' = r.fs.imap
    /\ dmap' = r.fs.dmap
    /\ inodes' = r.fs.inodes
    /\ disk' = r.fs.disk
    /\ ub' = r.fs.ub
    /\ last' = [rec EXCEPT !.err = r.err, !.frees = r.fs.frees, !.ifrees = r.fs.ifrees,
                           !.deallocs = r.fs.deallocs, !.drops = r.fs.drops,
                           !.log = r.fs.log]
    /\ UNCHANGED <<bmvars, rtvars, procvars>>

\* the same for vvsfs_create, whose result names the new inode
CommitNew(r, rec) == Commit(r, [rec EXCEPT !.ino = r.ino])

NumDentries(vi) == vi.i_size \div VVSFS_DENTRYSIZE

\* the entries the operations pick their victims from: the first and the
\* last slot of a directory
SampleSlots(vi) == {0, NumDentries(vi) - 1} \cap (0..(NumDentries(vi) - 1))

\* the block and the name of slot s as readdir (vvsfs_read_dentries) sees it
SlotReadable(fs, vi, s) ==
    /\ s \div VVSFS_N_DENTRY_PER_BLOCK < vi.i_db_count
    /\ vvsfs_read_dentries_ok(fs, vi)

SlotBlock(fs, vi, s) ==
    BlockData(fs, ReadDentriesBlock(fs, vi, s \div VVSFS_N_DENTRY_PER_BLOCK))

NameAt(blk, off) == [k \in 1..StrLenFrom(blk, off, 0) |-> BlockByte(blk, off + k - 1)]

SlotName(fs, vi, s) ==
    NameAt(SlotBlock(fs, vi, s), VVSFS_DENTRYSIZE * (s % VVSFS_N_DENTRY_PER_BLOCK))

SlotIno(fs, vi, s) == DentryIno(SlotBlock(fs, vi, s), s % VVSFS_N_DENTRY_PER_BLOCK)

Dirs(fs) == {i \in DOMAIN fs.inodes : fs.inodes[i].i_mode = "S_IFDIR"}

\* the names a directory offers to unlink, rmdir and rename
SampleNames(fs, dir) ==
    {SlotName(fs, fs.inodes[dir], s) :
        s \in {t \in SampleSlots(fs.inodes[dir]) : SlotReadable(fs, fs.inodes[dir], t)}}

\* d_inode of the dentry the VFS looked up for name in dir (l the result
\* of vvsfs_lookup); 0 when negative
lookup_inode(fs, l) == IF l.err = "OK" /\ l.ino \in DOMAIN fs.inodes THEN l.ino ELSE 0

DInode(fs, dir, name) == lookup_inode(fs, vvsfs_lookup(fs, dir, name))

\* ------------------------------------------------------------------------
\* Actions of the volume
\* ------------------------------------------------------------------------
\* the volume is prepared and another operation may be applied
Ready == seed = <<0, 0, 0>> /\ plan = <<>> /\ steps < MaxOps

\* an operation on the prepared volume
Step(r, rec) == Commit(r, rec) /\ seed' = seed /\ plan' = plan /\ steps' = steps + 1

\* the next call of the preparation, n the number of entries of the root
SetupOp(n) ==
    IF seed[1] > 0
    THEN IF n < 2 THEN vvsfs_create(Vol, ROOT_INO, SeedName(n + 1), "S_IFREG")
         ELSE vvsfs_link(Vol, DInode(Vol, ROOT_INO, SeedName(1 + (n % 2))), ROOT_INO,
                         SeedName(n + 1))
    ELSE IF seed[2] > 0
    THEN vvsfs_file_get_block(Vol, DInode(Vol, ROOT_INO, SeedName(1)),
             inodes[DInode(Vol, ROOT_INO, SeedName(1))].i_db_count, TRUE)
    ELSE vvsfs_unlink(Vol, ROOT_INO, SeedName(n), DInode(Vol, ROOT_INO, SeedName(n)))

SeedRest ==
    IF seed[1] > 0 THEN <<seed[1] - 1, seed[2], seed[3]>>
    ELSE IF seed[2] > 0 THEN <<0, seed[2] - 1, seed[3]>>
    ELSE <<0, 0, seed[3] - 1>>

\* one call of the preparation of the volume
Setup ==
    /\ seed # <<0, 0, 0>>
    /\ Commit(SetupOp(NumDentries(inodes[ROOT_INO])), [NoOp EXCEPT !.op = "setup"])
    /\ seed' = SeedRest
    /\ plan' = plan
    /\ steps' = steps

Create(dir, name) ==
    /\ Ready
    /\ DInode(Vol, dir, name) = 0
    /\ CommitNew(vvsfs_create(Vol, dir, name, "S_IFREG"),
                 [NoOp EXCEPT !.op = "create", !.dir = dir, !.name = name])
    /\ seed' = seed
    /\ plan' = plan
    /\ steps' = steps + 1

Mkdir(dir, name) ==
    /\ Ready
    /\ DInode(Vol, dir, name) = 0
    /\ CommitNew(vvsfs_mkdir(Vol, dir, name),
                 [NoOp EXCEPT !.op = "mkdir", !.dir = dir, !.name = name])
    /\ seed' = seed
    /\ plan' = plan
    /\ steps' = steps + 1

\* link(2) refuses directories
LinkInode(inode, dir, name) ==
    /\ Ready
    /\ inode # 0
    /\ IF inode = 0 THEN FALSE ELSE inodes[inode].i_mode = "S_IFREG"
    /\ DInode(Vol, dir, name) = 0
    /\ Step(vvsfs_link(Vol, inode, dir, name),
            [NoOp EXCEPT !.op = "link", !.dir = dir, !.name = name, !.ino = inode])

Link(odir, oname, dir, name) == LinkInode(DInode(Vol, odir, oname), dir, name)

\* unlink(2) refuses directories
UnlinkInode(dir, name, inode) ==
    /\ Ready
    /\ IF inode = 0 THEN FALSE ELSE inodes[inode].i_mode # "S_IFDIR"
    /\ Step(vvsfs_unlink(Vol, dir, name, inode),
            [NoOp EXCEPT !.op = "unlink", !.dir = dir, !.name = name, !.ino = inode])

Unlink(dir, name) == UnlinkInode(dir, name, DInode(Vol, dir, name))

RmdirInode(dir, name, inode) ==
    /\ Ready
    /\ IF inode = 0 THEN FALSE ELSE inodes[inode].i_mode = "S_IFDIR" /\ inode # dir
    /\ Step(vvsfs_rmdir(Vol, dir, name, inode),
            [NoOp EXCEPT !.op = "rmdir", !.dir = dir, !.name = name, !.ino = inode])

Rmdir(dir, name) == RmdirInode(dir, name, DInode(Vol, dir, name))

\* a directory is renamed inside its parent only
RenameInodes(old_dir, old_name, old_inode, new_dir, new_name, new_inode, flags) ==
    /\ Ready
    /\ IF old_inode = 0 THEN FALSE
       ELSE inodes[old_inode].i_mode = "S_IFDIR" => new_dir = old_dir
    /\ new_inode = 0 => flags = {}
    /\ Step(vvsfs_rename(Vol, old_dir, old_name, old_inode,
                         new_dir, new_name, new_inode, flags),
            [NoOp EXCEPT !.op = "rename", !.dir = old_dir, !.name = old_name,
                         !.ino = old_inode, !.dir2 = new_dir, !.name2 = new_name,
                         !.ino2 = new_inode, !.flags = flags])

Rename(old_dir, old_name, new_dir, new_name, flags) ==
    RenameInodes(old_dir, old_name, DInode(Vol, old_dir, old_name),
                 new_dir, new_name, DInode(Vol, new_dir, new_name), flags)

\* a write that extends a regular file by one block
FileGetBlockInode(dir, name, inode) ==
    /\ Ready
    /\ IF inode = 0 THEN FALSE ELSE inodes[inode].i_mode = "S_IFREG"
    /\ Step(vvsfs_file_get_block(Vol, inode, inodes[inode].i_db_count, TRUE),
            [NoOp EXCEPT !.op = "get_block", !.create = TRUE, !.dir = dir, !.name = name, !.ino = inode,
                         !.iblock = inodes[inode].i_db_count])

FileGetBlock(dir, name) == FileGetBlockInode(dir, name, DInode(Vol, dir, name))

Symlink(dir, name, symname) ==
    /\ Ready
    /\ DInode(Vol, dir, name) = 0
    /\ CommitNew(vvsfs_symlink(Vol, dir, name, symname),
                 [NoOp EXCEPT !.op = "symlink", !.dir = dir, !.name = name])
    /\ seed' = seed
    /\ plan' = plan
    /\ steps' = steps + 1

Mknod(dir, name) ==
    /\ Ready
    /\ DInode(Vol, dir, name) = 0
    /\ CommitNew(vvsfs_mknod(Vol, dir, name, "S_IFCHR", TRUE),
                 [NoOp EXCEPT !.op = "mknod", !.dir = dir, !.name = name])
    /\ seed' = seed
    /\ plan' = plan
    /\ steps' = steps + 1

Init ==
    /\ imap = MkfsVolume.imap
    /\ dmap = MkfsVolume.dmap
    /\ inodes = MkfsVolume.inodes
    /\ disk = MkfsVolume.disk
    /\ ub = FALSE
    /\ last = NoOp
    /\ seed \in Seeds
    /\ plan = <<>>
    /\ steps = 0
    /\ bm_map = FreshMap
    /\ bm_size = 1
    /\ bm_res = 0
    /\ bm_free = 0
    /\ bm_last = [op |-> "none", pos |-> 0, ret |-> 0, before |-> FreshMap]
    /\ rt = NoTrip
    /\ procs = NoProcs

Next ==
    \/ Setup
    \/ \E dir \in Dirs(Vol), name \in FileNames : Create(dir, name)
    \/ \E name \in DirNames : Mkdir(ROOT_INO, name)
    \/ \E odir \in Dirs(Vol), dir \in Dirs(Vol), name \in FileNames :
          \E oname \in SampleNames(Vol, odir) : Link(odir, oname, dir, name)
    \/ \E dir \in Dirs(Vol) : \E name \in SampleNames(Vol, dir) : Unlink(dir, name)
    \/ \E dir \in Dirs(Vol) : \E name \in SampleNames(Vol, dir) : Rmdir(dir, name)
    \/ \E old_dir \in Dirs(Vol), new_dir \in Dirs(Vol), flags \in RenameFlags :
          \E old_name \in SampleNames(Vol, old_dir) :
             \E new_name \in {<<120>>} \cup SampleNames(Vol, new_dir) :
                Rename(old_dir, old_name, new_dir, new_name, flags)
    \/ \E dir \in Dirs(Vol) : \E name \in SampleNames(Vol, dir) : FileGetBlock(dir, name)

Spec == Init /\ [][Next]_vars

\* ------------------------------------------------------------------------
\* Directory trees: the operations on volumes that hold directories, files
\* in them and blocks released with their content
\* ------------------------------------------------------------------------
\* names: "d", "e" for directories, "x", "y" for files, "s" for a symbolic
\* link, "n" for a device node; the target of a link fills a dentry slot
TreeDirNames == {<<100>>, <<101>>}
LinkName == <<115>>
NodeName == <<110>>
LongTarget == [k \in 1..VVSFS_DENTRYSIZE |-> 97]
\* the bytes of a directory entry: the name, a NUL, zeroes, and the inode
\* number in the last four bytes
DentryImage(name, ino) ==
    [k \in 1..VVSFS_DENTRYSIZE |->
        IF k <= Len(name) THEN name[k]
        ELSE IF k = VVSFS_DENTRYSIZE - 3 THEN ino
        ELSE 0]

\* a call of a plan: op, the name of the parent directory in the root (<<>>
\* for the root itself) and the name
PlanCall(op, dir, name) == [op |-> op, dir |-> dir, name |-> name]

\* the trees the operations start from
TreePlans ==
    {<<PlanCall("mkdir", <<>>, <<100>>), PlanCall("mkdir", <<>>, <<101>>),
       PlanCall("create", <<101>>, <<120>>)>>,
     <<PlanCall("symlink", <<>>, <<115>>), PlanCall("unlink", <<>>, <<115>>),
       PlanCall("mkdir", <<>>, <<100>>)>>,
     <<PlanCall("mkdir", <<>>, <<100>>), PlanCall("create", <<>>, <<120>>)>>}

PlanDir(p) == IF p.dir = <<>> THEN ROOT_INO ELSE DInode(Vol, ROOT_INO, p.dir)

PlanOp(p) ==
    CASE p.op = "mkdir" -> vvsfs_mkdir(Vol, PlanDir(p), p.name)
      [] p.op = "create" -> vvsfs_create(Vol, PlanDir(p), p.name, "S_IFREG")
      [] p.op = "symlink" -> vvsfs_symlink(Vol, PlanDir(p), p.name, LongTarget)
      [] p.op = "write" ->
            vvsfs_write(Vol, DInode(Vol, PlanDir(p), p.name), DentryImage(<<121>>, 7))
      [] p.op = "unlink" ->
            vvsfs_unlink(Vol, PlanDir(p), p.name, DInode(Vol, PlanDir(p), p.name))

\* one call of the plan
Prepare ==
    /\ plan # <<>>
    /\ Commit(PlanOp(Head(plan)), [NoOp EXCEPT !.op = "setup"])
    /\ seed' = seed
    /\ plan' = Tail(plan)
    /\ steps' = steps

InitTree ==
    /\ imap = MkfsVolume.imap
    /\ dmap = MkfsVolume.dmap
    /\ inodes = MkfsVolume.inodes
    /\ disk = MkfsVolume.disk
    /\ ub = FALSE
    /\ last = NoOp
    /\ seed = <<0, 0, 0>>
    /\ plan \in TreePlans
    /\ steps = 0
    /\ bm_map = FreshMap
    /\ bm_size = 1
    /\ bm_res = 0
    /\ bm_free = 0
    /\ bm_last = [op |-> "none", pos |-> 0, ret |-> 0, before |-> FreshMap]
    /\ rt = NoTrip
    /\ procs = NoProcs

NextTree ==
    \/ Prepare
    \/ \E dir \in Dirs(Vol), name \in FileNames : Create(dir, name)
    \/ \E name \in TreeDirNames : Mkdir(ROOT_INO, name)
    \/ Symlink(ROOT_INO, LinkName, LongTarget)
    \/ Mknod(ROOT_INO, NodeName)
    \/ \E dir \in Dirs(Vol) : \E name \in SampleNames(Vol, dir) : Unlink(dir, name)
    \/ \E dir \in Dirs(Vol) : \E name \in SampleNames(Vol, dir) : Rmdir(dir, name)
    \/ \E old_dir \in Dirs(Vol), new_dir \in Dirs(Vol) :
          \E old_name \in SampleNames(Vol, old_dir) :
             \E new_name \in {<<121>>} \cup SampleNames(Vol, new_dir) :
                Rename(old_dir, old_name, new_dir, new_name, {})

SpecTree == InitTree /\ [][NextTree]_vars

\* ------------------------------------------------------------------------
\* The same operations on volumes whose free blocks hold what a removed
\* file left in them: the bytes of a directory entry, written to the file
\* before it was unlinked
\* ------------------------------------------------------------------------
StalePlans ==
    {<<PlanCall("create", <<>>, <<120>>), PlanCall("write", <<>>, <<120>>),
       PlanCall("unlink", <<>>, <<120>>), PlanCall("mkdir", <<>>, <<100>>)>>,
     <<PlanCall("mkdir", <<>>, <<100>>), PlanCall("create", <<>>, <<120>>),
       PlanCall("write", <<>>, <<120>>), PlanCall("unlink", <<>>, <<120>>)>>}

InitStale ==
    /\ imap = MkfsVolume.imap
    /\ dmap = MkfsVolume.dmap
    /\ inodes = MkfsVolume.inodes
    /\ disk = MkfsVolume.disk
    /\ ub = FALSE
    /\ last = NoOp
    /\ seed = <<0, 0, 0>>
    /\ plan \in StalePlans
    /\ steps = 0
    /\ bm_map = FreshMap
    /\ bm_size = 1
    /\ bm_res = 0
    /\ bm_free = 0
    /\ bm_last = [op |-> "none", pos |-> 0, ret |-> 0, before |-> FreshMap]
    /\ rt = NoTrip
    /\ procs = NoProcs

SpecStale == InitStale /\ [][NextTree]_vars

\* ------------------------------------------------------------------------
\* Successive creates in the root of a fresh volume, and readdir
\* ------------------------------------------------------------------------
\* creates of the chain
MaxCreates == 120
\* blocks the files are extended by after the creates
MaxExtends == 300

\* strnlen(s, maxlen) of the string at byte offset off of a buffer
strnlen(blk, off, maxlen, n) ==
    IF \A k \in n..(maxlen - 1) : BlockByte(blk, off + k) # 0
    THEN maxlen
    ELSE CHOOSE k \in n..(maxlen - 1) :
            /\ BlockByte(blk, off + k) = 0
            /\ \A x \in n..(k - 1) : BlockByte(blk, off + x) # 0

\* what dir_emit is handed for slot i: the name cut at VVSFS_MAXNAME bytes
\* and the inode number
EmittedEntry(fs, vi, i) ==
    <<[k \in 1..strnlen(SlotBlock(fs, vi, i),
                        VVSFS_DENTRYSIZE * (i % VVSFS_N_DENTRY_PER_BLOCK),
                        VVSFS_MAXNAME, 0) |->
          BlockByte(SlotBlock(fs, vi, i),
                    VVSFS_DENTRYSIZE * (i % VVSFS_N_DENTRY_PER_BLOCK) + k - 1)],
      SlotIno(fs, vi, i)>>

\* the loop of vvsfs_readdir from slot first: f_pos is the position the
\* call started at, room the entries the caller's buffer still takes
\* (dir_emit fails when it is full)
readdir_loop(fs, vi, f_pos, room, first) ==
    IF ~(first < NumDentries(vi) /\ f_pos < vi.i_size)
    THEN [err |-> "OK", entries |-> <<>>, pos |-> f_pos]
    ELSE IF NumDentries(vi) - first > room
    THEN [err |-> "ENOENT",
          entries |-> [k \in 1..room |-> EmittedEntry(fs, vi, first + k - 1)],
          pos |-> f_pos + room * VVSFS_DENTRYSIZE]
    ELSE [err |-> "OK",
          entries |-> [k \in 1..(NumDentries(vi) - first) |->
                          EmittedEntry(fs, vi, first + k - 1)],
          pos |-> f_pos + (NumDentries(vi) - first) * VVSFS_DENTRYSIZE]

\* the loop started one slot late
readdir_skip_first(fs, dir, f_pos, room) ==
    IF ~vvsfs_read_dentries_ok(fs, fs.inodes[dir])
    THEN [err |-> "EIO", entries |-> <<>>, pos |-> f_pos]
    ELSE readdir_loop(fs, fs.inodes[dir], f_pos, room, f_pos \div VVSFS_DENTRYSIZE + 1)

vvsfs_readdir(fs, dir, f_pos, room) ==
    IF ~vvsfs_read_dentries_ok(fs, fs.inodes[dir])
    THEN [err |-> "EIO", entries |-> <<>>, pos |-> f_pos]
    ELSE readdir_loop(fs, fs.inodes[dir], f_pos, room, f_pos \div VVSFS_DENTRYSIZE)

\* the next create of the chain: the steps-th call creates the file named
\* SeedName(steps) in the root
CreateSeq ==
    /\ seed = <<0, MaxExtends, 0>>
    /\ plan = <<>>
    /\ steps < MaxCreates
    /\ CommitNew(vvsfs_create(Vol, ROOT_INO, SeedName(steps + 1), "S_IFREG"),
                 [NoOp EXCEPT !.op = "create", !.dir = ROOT_INO,
                              !.name = SeedName(steps + 1)])
    /\ seed' = seed
    /\ plan' = plan
    /\ steps' = steps + 1

\* the file the writes of the chain extend: the first created file that
\* has not reached the largest size
ExtendIno == MinOf({i \in (DOMAIN inodes) \ {ROOT_INO} :
                       inodes[i].i_db_count < VVSFS_MAX_INODE_BLOCKS})

\* after the creates the files are written to, in the order of their
\* creation, each up to the largest size: a write that extends a file by
\* one block
ExtendSeq ==
    /\ steps = MaxCreates
    /\ seed[2] > 0
    /\ Commit(vvsfs_file_get_block(Vol, ExtendIno, inodes[ExtendIno].i_db_count, TRUE),
              [NoOp EXCEPT !.op = "get_block", !.create = TRUE, !.ino = ExtendIno,
                           !.iblock = inodes[ExtendIno].i_db_count])
    /\ seed' = <<0, seed[2] - 1, 0>>
    /\ plan' = plan
    /\ steps' = steps

InitCreate ==
    /\ imap = MkfsVolume.imap
    /\ dmap = MkfsVolume.dmap
    /\ inodes = MkfsVolume.inodes
    /\ disk = MkfsVolume.disk
    /\ ub = FALSE
    /\ last = NoOp
    /\ seed = <<0, MaxExtends, 0>>
    /\ plan = <<>>
    /\ steps = 0
    /\ bm_map = FreshMap
    /\ bm_size = 1
    /\ bm_res = 0
    /\ bm_free = 0
    /\ bm_last = [op |-> "none", pos |-> 0, ret |-> 0, before |-> FreshMap]
    /\ rt = NoTrip
    /\ procs = NoProcs

\* ------------------------------------------------------------------------
\* The volume the chain reaches, written out: after k creates in the root
\* of a fresh volume, the first m files extended to the largest size and
\* the next one by r blocks.  No position has been freed, so every
\* reservation took the position after the last one.
\* ------------------------------------------------------------------------
\* the entries the direct blocks of a directory hold
DirectEntries == VVSFS_LAST_DIRECT_BLOCK_INDEX * VVSFS_N_DENTRY_PER_BLOCK

\* the blocks of the root after k creates
RootBlocks(k) == Max(1, (k + VVSFS_N_DENTRY_PER_BLOCK - 1) \div VVSFS_N_DENTRY_PER_BLOCK)

\* the position of the block vvsfs_new_inode reserved for the j-th file:
\* before it the earlier files took one position each, the root one for
\* every eight entries and one for its indirect block
FilePos(j) ==
    j + ((Max(j, 2) - 2) \div VVSFS_N_DENTRY_PER_BLOCK)
      + (IF j > DirectEntries + 1 THEN 1 ELSE 0)

\* the position of logical block b of the root: mkfs gave it block 0, the
\* create of entry 8b + 1 reserved block b after the block of its file, and
\* the indirect block before block 14
RootBlockPos(b) ==
    IF b = 0 THEN 0
    ELSE FilePos(VVSFS_N_DENTRY_PER_BLOCK * b + 1) + (IF b = LAST THEN 2 ELSE 1)

RootIndirectPos == FilePos(DirectEntries + 1) + 1

\* the first position free after k creates
FirstFree(k) ==
    k + RootBlocks(k) + (IF RootBlocks(k) > LAST THEN 1 ELSE 0)

\* slots d .. 7 of block b of the root written by the creates
RECURSIVE RootSlots(_, _, _, _)
RootSlots(blk, k, b, d) ==
    IF d >= VVSFS_N_DENTRY_PER_BLOCK \/ VVSFS_N_DENTRY_PER_BLOCK * b + d >= k THEN blk
    ELSE RootSlots(SetDentryIno(SetDentryName(blk, d,
                                    SeedName(VVSFS_N_DENTRY_PER_BLOCK * b + d + 1)),
                                d, VVSFS_N_DENTRY_PER_BLOCK * b + d + 2),
                   k, b, d + 1)

\* an indirect block whose pointers 0 .. n - 1 are first, first + 1, ...
PointerRun(first, n) == [idx \in 0..(n - 1) |-> ByteSwap(first + idx)]

\* the blocks the j-th file was extended by
Extended(j, m, r) == IF j <= m THEN VVSFS_MAX_INODE_BLOCKS - 1 ELSE IF j = m + 1 THEN r ELSE 0

\* the first position reserved for the extension of the j-th file: a file
\* extended to the largest size took 269 blocks and an indirect block
ExtendBase(k, j) == FirstFree(k) + VVSFS_MAX_INODE_BLOCKS * (j - 1)

\* the inode of the j-th file, extended by x blocks from position base
FilledInode(j, x, base) ==
    [i_mode |-> "S_IFREG", i_size |-> 0, i_nlink |-> 1, i_db_count |-> 1 + x,
     i_data |-> [l \in 0..(VVSFS_N_BLOCKS - 1) |->
                    IF l = 0 THEN FilePos(j)
                    ELSE IF l < LAST THEN (IF l <= x THEN base + l - 1 ELSE 0)
                    ELSE IF x >= LAST THEN base + LAST - 1 ELSE 0]]

FilledRoot(k) ==
    [i_mode |-> "S_IFDIR", i_size |-> VVSFS_DENTRYSIZE * k, i_nlink |-> 1,
     i_db_count |-> RootBlocks(k),
     i_data |-> [l \in 0..(VVSFS_N_BLOCKS - 1) |->
                    IF l < LAST THEN (IF l < RootBlocks(k) THEN RootBlockPos(l) ELSE 0)
                    ELSE IF RootBlocks(k) > LAST THEN RootIndirectPos ELSE 0]]

\* the blocks that hold a non-zero word, as <<position, block>>
FilledBlocks(k, m, r) ==
    {<<RootBlockPos(b), RootSlots(ZeroBlock, k, b, 0)>> :
        b \in {c \in 0..(RootBlocks(k) - 1) : VVSFS_N_DENTRY_PER_BLOCK * c < k}}
    \cup (IF RootBlocks(k) > LAST
          THEN {<<RootIndirectPos,
                  [idx \in 0..(RootBlocks(k) - LAST - 1) |->
                      ByteSwap(RootBlockPos(LAST + idx))]>>}
          ELSE {})
    \cup {<<ExtendBase(k, j) + LAST - 1,
            PointerRun(ExtendBase(k, j) + LAST, Extended(j, m, r) - LAST + 1)>> :
             j \in {i \in 1..(m + 1) : Extended(i, m, r) >= LAST}}

\* the function a set of <<argument, value>> pairs stands for
FunctionOf(pairs) ==
    [x \in {q[1] : q \in pairs} |-> (CHOOSE q \in pairs : q[1] = x)[2]]

\* a bitmap whose bits 0 .. n - 1 are set
PrefixMap(n) ==
    [i \in 0..((n - 1) \div 8) |->
        IF 8 * i + 8 <= n THEN 255 ELSE 256 - 2 ^ (8 - (n % 8))]

\* the positions the extensions took: one per block and one per indirect block
ExtendedPositions(m, r) ==
    VVSFS_MAX_INODE_BLOCKS * m + r + (IF r >= LAST THEN 1 ELSE 0)

Filled(k, m, r) ==
    [MkfsVolume EXCEPT
        !.imap = PrefixMap(k + 1),
        !.dmap = PrefixMap(FirstFree(k) + ExtendedPositions(m, r)),
        !.inodes = [i \in 1..(k + 1) |->
                       IF i = ROOT_INO THEN FilledRoot(k)
                       ELSE FilledInode(i - 1, Extended(i - 1, m, r),
                                        ExtendBase(k, i - 1))],
        !.disk = FunctionOf(FilledBlocks(k, m, r))]

\* the chain is at Filled(k, m, r) after k creates and a number of writes
ChainMatchesFilled ==
    Vol = Filled(steps,
                 (MaxExtends - seed[2]) \div (VVSFS_MAX_INODE_BLOCKS - 1),
                 (MaxExtends - seed[2]) % (VVSFS_MAX_INODE_BLOCKS - 1))

NextCreate == CreateSeq \/ ExtendSeq

SpecCreate == InitCreate /\ [][NextCreate]_vars

\* ------------------------------------------------------------------------
\* Full volumes: the operations on a root that holds the largest number of
\* entries and on volumes whose data positions are nearly all taken
\* ------------------------------------------------------------------------
\* the data positions left free on Filled(k, m, r)
FreePositions(k, m, r) ==
    VVSFS_DMAP_SIZE * 8 - FirstFree(k) - ExtendedPositions(m, r)

\* the files extended to the largest size on the nearly full volumes: as
\* many as fit beside a root with its direct blocks full
FullFiles ==
    (VVSFS_DMAP_SIZE * 8 - FirstFree(DirectEntries)) \div VVSFS_MAX_INODE_BLOCKS

\* the volumes the operations start from, as <<k, m, r>> of Filled: a root
\* with one entry less than it can hold and a full one, and volumes with one
\* to three free data positions whose root has its blocks full, below the
\* indirect block (64 entries) and at it (112 entries)
FullVolumes ==
    {<<VVSFS_MAX_DENTRIES - 1, 0, 0>>, <<VVSFS_MAX_DENTRIES, 0, 0>>}
    \cup {v \in {DirectEntries - 6 * VVSFS_N_DENTRY_PER_BLOCK, DirectEntries}
                   \X {FullFiles} \X (0..(VVSFS_MAX_INODE_BLOCKS - 2)) :
             FreePositions(v[1], v[2], v[3]) \in 1..3}

InitFull ==
    /\ \E v \in FullVolumes :
          /\ imap = Filled(v[1], v[2], v[3]).imap
          /\ dmap = Filled(v[1], v[2], v[3]).dmap
          /\ inodes = Filled(v[1], v[2], v[3]).inodes
          /\ disk = Filled(v[1], v[2], v[3]).disk
    /\ ub = FALSE
    /\ last = NoOp
    /\ seed = <<0, 0, 0>>
    /\ plan = <<>>
    /\ steps = 0
    /\ bm_map = FreshMap
    /\ bm_size = 1
    /\ bm_res = 0
    /\ bm_free = 0
    /\ bm_last = [op |-> "none", pos |-> 0, ret |-> 0, before |-> FreshMap]
    /\ rt = NoTrip
    /\ procs = NoProcs

\* unlink of the entry in the last slot of the root directory
UnlinkLast ==
    IF /\ NumDentries(inodes[ROOT_INO]) > 0
       /\ SlotReadable(Vol, inodes[ROOT_INO], NumDentries(inodes[ROOT_INO]) - 1)
    THEN \E name \in {SlotName(Vol, inodes[ROOT_INO],
                               NumDentries(inodes[ROOT_INO]) - 1)} :
            \E inode \in {DInode(Vol, ROOT_INO, name)} :
               UnlinkInode(ROOT_INO, name, inode)
    ELSE FALSE

NextFull ==
    \/ \E name \in FileNames : Create(ROOT_INO, name)
    \/ \E name \in DirNames : Mkdir(ROOT_INO, name)
    \/ UnlinkLast

SpecFull == InitFull /\ [][NextFull]_vars

\* ------------------------------------------------------------------------
\* Writes at the largest file size: vvsfs_file_get_block on the full
\* volumes, for the block after the last of a file, the first block a file
\* cannot have and the one after it
\* ------------------------------------------------------------------------
\* a write to logical block iblock of the regular file inode
FileGetBlockAt(inode, iblock) ==
    /\ Ready
    /\ IF inode \in DOMAIN inodes THEN inodes[inode].i_mode = "S_IFREG" ELSE FALSE
    /\ Step(vvsfs_file_get_block(Vol, inode, iblock, TRUE),
            [NoOp EXCEPT !.op = "get_block", !.create = TRUE, !.ino = inode, !.iblock = iblock])

\* the files written to: the first file, the file after the last full one,
\* the last file
WrittenFiles == {ROOT_INO + 1, ROOT_INO + FullFiles + 1, NumDentries(inodes[ROOT_INO]) + 1}

NextWrite ==
    \E inode \in WrittenFiles :
       \E iblock \in {inodes[inode].i_db_count, VVSFS_MAX_INODE_BLOCKS,
                       VVSFS_MAX_INODE_BLOCKS + 1} :
          FileGetBlockAt(inode, iblock)

SpecWrite == InitFull /\ [][NextWrite]_vars

\* ------------------------------------------------------------------------
\* Block mapping of reads and writes: vvsfs_file_get_block on the full
\* volumes with and without create, for the first block of a file, the
\* block after its last, the one after that and the first block a file
\* cannot have
\* ------------------------------------------------------------------------
FileMapBlock(inode, iblock, create) ==
    /\ Ready
    /\ IF inode \in DOMAIN inodes THEN inodes[inode].i_mode = "S_IFREG" ELSE FALSE
    /\ Step(vvsfs_file_get_block(Vol, inode, iblock, create),
            [NoOp EXCEPT !.op = "get_block", !.ino = inode, !.iblock = iblock,
                         !.create = create])

NextMap ==
    \E inode \in WrittenFiles :
       \E iblock \in {0, inodes[inode].i_db_count, inodes[inode].i_db_count + 1,
                       VVSFS_MAX_INODE_BLOCKS} :
          \E create \in BOOLEAN : FileMapBlock(inode, iblock, create)

SpecMap == InitFull /\ [][NextMap]_vars

\* ------------------------------------------------------------------------
\* The first indirect block on a nearly full volume: writes that extend a
\* file by one block on volumes with one to three free data positions, the
\* file after the last full one having 12 to 15 blocks
\* ------------------------------------------------------------------------
EdgeVolumes ==
    {v \in ((DirectEntries + 4 * VVSFS_N_DENTRY_PER_BLOCK)..
                (DirectEntries + 5 * VVSFS_N_DENTRY_PER_BLOCK))
               \X {FullFiles} \X ((LAST - 3)..LAST) :
        FreePositions(v[1], v[2], v[3]) \in 1..3}

InitEdge ==
    /\ \E v \in EdgeVolumes :
          /\ imap = Filled(v[1], v[2], v[3]).imap
          /\ dmap = Filled(v[1], v[2], v[3]).dmap
          /\ inodes = Filled(v[1], v[2], v[3]).inodes
          /\ disk = Filled(v[1], v[2], v[3]).disk
    /\ ub = FALSE
    /\ last = NoOp
    /\ seed = <<0, 0, 0>>
    /\ plan = <<>>
    /\ steps = 0
    /\ bm_map = FreshMap
    /\ bm_size = 1
    /\ bm_res = 0
    /\ bm_free = 0
    /\ bm_last = [op |-> "none", pos |-> 0, ret |-> 0, before |-> FreshMap]
    /\ rt = NoTrip
    /\ procs = NoProcs

NextEdge ==
    \E inode \in WrittenFiles : FileGetBlockAt(inode, inodes[inode].i_db_count)

SpecEdge == InitEdge /\ [][NextEdge]_vars

\* ------------------------------------------------------------------------
\* Names at the limit: the operations that store a name, called with a name
\* of VVSFS_MAXNAME bytes and with one a byte longer
\* ------------------------------------------------------------------------
MaxName == [k \in 1..VVSFS_MAXNAME |-> 109]
LongName == [k \in 1..(VVSFS_MAXNAME + 1) |-> 108]
LimitNames == {MaxName, LongName}

\* the flags of renameat2
LimitFlags == RenameFlags \cup {{"RENAME_EXCHANGE"}, {"RENAME_WHITEOUT"}}

\* the entries the volumes of these runs are prepared with
NameSeeds == {<<0, 0, 0>>, <<1, 0, 0>>, <<2, 0, 0>>}

\* mknod with a device number old_valid_dev accepts (valid_dev) or refuses
MknodRdev(dir, name, valid_dev) ==
    /\ Ready
    /\ DInode(Vol, dir, name) = 0
    /\ CommitNew(vvsfs_mknod(Vol, dir, name, "S_IFCHR", valid_dev),
                 [NoOp EXCEPT !.op = "mknod", !.dir = dir, !.name = name,
                              !.flags = IF valid_dev THEN {} ELSE {"rdev"}])
    /\ seed' = seed
    /\ plan' = plan
    /\ steps' = steps + 1

\* rename to a name the directory does not hold, with any flags
RenameNew(old_dir, old_name, new_dir, new_name, flags) ==
    /\ Ready
    /\ DInode(Vol, old_dir, old_name) # 0
    /\ DInode(Vol, new_dir, new_name) = 0
    /\ Step(vvsfs_rename(Vol, old_dir, old_name, DInode(Vol, old_dir, old_name),
                         new_dir, new_name, 0, flags),
            [NoOp EXCEPT !.op = "rename", !.dir = old_dir, !.name = old_name,
                         !.ino = DInode(Vol, old_dir, old_name), !.dir2 = new_dir,
                         !.name2 = new_name, !.flags = flags])

InitNames ==
    /\ imap = MkfsVolume.imap
    /\ dmap = MkfsVolume.dmap
    /\ inodes = MkfsVolume.inodes
    /\ disk = MkfsVolume.disk
    /\ ub = FALSE
    /\ last = NoOp
    /\ seed \in NameSeeds
    /\ plan = <<>>
    /\ steps = 0
    /\ bm_map = FreshMap
    /\ bm_size = 1
    /\ bm_res = 0
    /\ bm_free = 0
    /\ bm_last = [op |-> "none", pos |-> 0, ret |-> 0, before |-> FreshMap]
    /\ rt = NoTrip
    /\ procs = NoProcs

NextNames ==
    \/ Setup
    \/ \E name \in LimitNames : Create(ROOT_INO, name)
    \/ \E name \in LimitNames : Mkdir(ROOT_INO, name)
    \/ \E name \in LimitNames, valid_dev \in BOOLEAN : MknodRdev(ROOT_INO, name, valid_dev)
    \/ \E name \in LimitNames : Symlink(ROOT_INO, name, <<116>>)
    \/ \E name \in LimitNames : \E oname \in SampleNames(Vol, ROOT_INO) :
          Link(ROOT_INO, oname, ROOT_INO, name)
    \/ \E name \in LimitNames, flags \in LimitFlags :
          \E old_name \in SampleNames(Vol, ROOT_INO) :
             RenameNew(ROOT_INO, old_name, ROOT_INO, name, flags)

SpecNames == InitNames /\ [][NextNames]_vars

\* ------------------------------------------------------------------------
\* Device faults: one operation on a prepared volume while sb_bread fails
\* for the blocks of bad
\* ------------------------------------------------------------------------
\* the entries and blocks the volumes of these runs are prepared with
FaultSeeds == {<<2, 0, 0>>, <<10, 0, 0>>, <<112, 0, 0>>, <<114, 0, 0>>, <<120, 0, 0>>,
               <<2, 13, 0>>, <<2, 14, 0>>}

\* the target of the symbolic links of these runs
FaultTarget == <<116>>

Faulty(fs, bad) == [fs EXCEPT !.badblocks = bad]

\* the values an uninitialised uint32_t of a call is tried with: data
\* positions 0 and 1, and the first value that is no position of the map
StackValues == {0, 1, VVSFS_DMAP_SIZE * 8}

\* the volume during a call whose uninitialised variables hold junk
Stack(fs, junk) == [fs EXCEPT !.junk = junk]

\* the positions of the first and the last block of an inode and of its
\* indirect block
InodePositions(fs, vi) ==
    {ReadDentriesBlock(fs, vi, b) : b \in {0, vi.i_db_count - 1} \cap (0..(vi.i_db_count - 1))}
       \cup (IF vi.i_db_count >= VVSFS_N_BLOCKS THEN {vi.i_data[LAST]} ELSE {})

\* the next two positions vvsfs_reserve_data_block hands out
NextPositions(fs) ==
    {vvsfs_reserve_data_block(fs.dmap).ret,
     vvsfs_reserve_data_block(vvsfs_reserve_data_block(fs.dmap).map).ret} \ {0}

\* the sets of unreadable blocks an operation is tried with: none, or one of
\* the blocks above
FaultSets(fs) ==
    {{}} \cup {{p} : p \in NextPositions(fs) \cup
                          UNION {InodePositions(fs, fs.inodes[i]) : i \in DOMAIN fs.inodes}}

\* the volume is prepared and no operation has been applied yet
FaultReady == seed = <<0, 0, 0>> /\ plan = <<>> /\ steps = 0

FaultStep(r, rec, bad) ==
    /\ Commit(r, [rec EXCEPT !.bad = bad])
    /\ seed' = seed
    /\ plan' = plan
    /\ steps' = steps + 1

CreateFault(dir, name, bad, junk) ==
    /\ FaultReady
    /\ DInode(Vol, dir, name) = 0
    /\ \E r \in {vvsfs_create(Faulty(Stack(Vol, junk), bad), dir, name, "S_IFREG")} :
          FaultStep(r, [NoOp EXCEPT !.op = "create", !.dir = dir, !.name = name,
                                    !.ino = r.ino], bad)

MknodFault(dir, name, bad, junk) ==
    /\ FaultReady
    /\ DInode(Vol, dir, name) = 0
    /\ \E r \in {vvsfs_mknod(Faulty(Stack(Vol, junk), bad), dir, name, "S_IFCHR", TRUE)} :
          FaultStep(r, [NoOp EXCEPT !.op = "mknod", !.dir = dir, !.name = name,
                                    !.ino = r.ino], bad)

SymlinkFault(dir, name, bad, junk) ==
    /\ FaultReady
    /\ DInode(Vol, dir, name) = 0
    /\ \E r \in {vvsfs_symlink(Faulty(Stack(Vol, junk), bad), dir, name, FaultTarget)} :
          FaultStep(r, [NoOp EXCEPT !.op = "symlink", !.dir = dir, !.name = name,
                                    !.ino = r.ino], bad)

LinkFault(inode, dir, name, bad, junk) ==
    /\ FaultReady
    /\ IF inode = 0 THEN FALSE ELSE inodes[inode].i_mode = "S_IFREG"
    /\ DInode(Vol, dir, name) = 0
    /\ FaultStep(vvsfs_link(Faulty(Stack(Vol, junk), bad), inode, dir, name),
                 [NoOp EXCEPT !.op = "link", !.dir = dir, !.name = name, !.ino = inode],
                 bad)

UnlinkFault(dir, name, inode, bad, junk) ==
    /\ FaultReady
    /\ IF inode = 0 THEN FALSE ELSE inodes[inode].i_mode # "S_IFDIR"
    /\ FaultStep(vvsfs_unlink(Faulty(Stack(Vol, junk), bad), dir, name, inode),
                 [NoOp EXCEPT !.op = "unlink", !.dir = dir, !.name = name, !.ino = inode],
                 bad)

RmdirFault(dir, name, inode, bad, junk) ==
    /\ FaultReady
    /\ IF inode = 0 THEN FALSE ELSE inodes[inode].i_mode = "S_IFDIR" /\ inode # dir
    /\ FaultStep(vvsfs_rmdir(Faulty(Stack(Vol, junk), bad), dir, name, inode),
                 [NoOp EXCEPT !.op = "rmdir", !.dir = dir, !.name = name, !.ino = inode],
                 bad)

RenameFault(old_dir, old_name, old_inode, new_dir, new_name, new_inode, bad, junk) ==
    /\ FaultReady
    /\ IF old_inode = 0 THEN FALSE
       ELSE inodes[old_inode].i_mode = "S_IFDIR" => new_dir = old_dir
    /\ FaultStep(vvsfs_rename(Faulty(Stack(Vol, junk), bad), old_dir, old_name, old_inode,
                              new_dir, new_name, new_inode, {}),
                 [NoOp EXCEPT !.op = "rename", !.dir = old_dir, !.name = old_name,
                              !.ino = old_inode, !.dir2 = new_dir, !.name2 = new_name,
                              !.ino2 = new_inode],
                 bad)

GetBlockFault(dir, name, inode, bad, junk) ==
    /\ FaultReady
    /\ IF inode = 0 THEN FALSE ELSE inodes[inode].i_mode = "S_IFREG"
    /\ FaultStep(vvsfs_file_get_block(Faulty(Stack(Vol, junk), bad), inode, inodes[inode].i_db_count,
                                      TRUE),
                 [NoOp EXCEPT !.op = "get_block", !.create = TRUE, !.dir = dir, !.name = name,
                              !.ino = inode, !.iblock = inodes[inode].i_db_count],
                 bad)

InitFault ==
    /\ imap = MkfsVolume.imap
    /\ dmap = MkfsVolume.dmap
    /\ inodes = MkfsVolume.inodes
    /\ disk = MkfsVolume.disk
    /\ ub = FALSE
    /\ last = NoOp
    /\ \E sp \in (FaultSeeds \X {<<>>}) \cup ({<<0, 0, 0>>} \X TreePlans) :
          seed = sp[1] /\ plan = sp[2]
    /\ steps = 0
    /\ bm_map = FreshMap
    /\ bm_size = 1
    /\ bm_res = 0
    /\ bm_free = 0
    /\ bm_last = [op |-> "none", pos |-> 0, ret |-> 0, before |-> FreshMap]
    /\ rt = NoTrip
    /\ procs = NoProcs

NextFault ==
    \/ Setup
    \/ Prepare
    \/ \E bad \in FaultSets(Vol), junk \in StackValues : CreateFault(ROOT_INO, <<120>>, bad, junk)
    \/ \E bad \in FaultSets(Vol), junk \in StackValues : MknodFault(ROOT_INO, NodeName, bad, junk)
    \/ \E bad \in FaultSets(Vol), junk \in StackValues : SymlinkFault(ROOT_INO, LinkName, bad, junk)
    \/ \E bad \in FaultSets(Vol), junk \in StackValues : \E oname \in SampleNames(Vol, ROOT_INO) :
          LinkFault(DInode(Vol, ROOT_INO, oname), ROOT_INO, <<120>>, bad, junk)
    \/ \E bad \in FaultSets(Vol), junk \in StackValues, dir \in Dirs(Vol) : \E name \in SampleNames(Vol, dir) :
          UnlinkFault(dir, name, DInode(Vol, dir, name), bad, junk)
    \/ \E bad \in FaultSets(Vol), junk \in StackValues : \E name \in SampleNames(Vol, ROOT_INO) :
          RmdirFault(ROOT_INO, name, DInode(Vol, ROOT_INO, name), bad, junk)
    \/ \E bad \in FaultSets(Vol), junk \in StackValues, new_dir \in Dirs(Vol) :
          \E old_name \in SampleNames(Vol, ROOT_INO) :
             \E new_name \in {<<121>>} \cup SampleNames(Vol, new_dir) :
                RenameFault(ROOT_INO, old_name, DInode(Vol, ROOT_INO, old_name),
                            new_dir, new_name, DInode(Vol, new_dir, new_name), bad, junk)
    \/ \E bad \in FaultSets(Vol), junk \in StackValues : \E name \in SampleNames(Vol, ROOT_INO) :
          GetBlockFault(ROOT_INO, name, DInode(Vol, ROOT_INO, name), bad, junk)

SpecFault == InitFault /\ [][NextFault]_vars

\* ------------------------------------------------------------------------
\* Shift-back on its own: vvsfs_dealloc_data_block called for any block of
\* a file that has an indirect block.  The namespace operations call it for
\* the last block of a directory only.
\* ------------------------------------------------------------------------
\* the volumes: one file of 15, 16 or 17 blocks
ShiftSeeds == {<<1, LAST, 0>>, <<1, LAST + 1, 0>>, <<1, LAST + 2, 0>>}

\* the values the word behind i_data (the first word of vfs_inode) is
\* tried with
OobValues == {0, 33188}

DeallocBlock(inode, block_index, oob) ==
    /\ FaultReady
    /\ inode \in DOMAIN inodes
    /\ block_index < inodes[inode].i_db_count
    /\ FaultStep(vvsfs_dealloc_data_block([Vol EXCEPT !.oob = oob], inode, block_index),
                 [NoOp EXCEPT !.op = "dealloc", !.ino = inode, !.iblock = block_index],
                 {})

InitShift ==
    /\ imap = MkfsVolume.imap
    /\ dmap = MkfsVolume.dmap
    /\ inodes = MkfsVolume.inodes
    /\ disk = MkfsVolume.disk
    /\ ub = FALSE
    /\ last = NoOp
    /\ seed \in ShiftSeeds
    /\ plan = <<>>
    /\ steps = 0
    /\ bm_map = FreshMap
    /\ bm_size = 1
    /\ bm_res = 0
    /\ bm_free = 0
    /\ bm_last = [op |-> "none", pos |-> 0, ret |-> 0, before |-> FreshMap]
    /\ rt = NoTrip
    /\ procs = NoProcs

NextShift ==
    \/ Setup
    \/ \E block_index \in 0..(VVSFS_LAST_DIRECT_BLOCK_INDEX + 2), oob \in OobValues :
          DeallocBlock(ROOT_INO + 1, block_index, oob)

SpecShift == InitShift /\ [][NextShift]_vars

\* ------------------------------------------------------------------------
\* The inode table (vvsfs.h, inode.c, vvsfs_main.c): an in-memory inode is
\* written to its record and loaded from it again.  A 64-bit field of
\* struct inode (loff_t, time64_t) is a pair <<high word, low word>>, a
\* 32-bit field a word
\* ------------------------------------------------------------------------
VVSFS_INODESIZE == 256
VVSFS_N_INODE_PER_BLOCK == VVSFS_BLOCKSIZE \div VVSFS_INODESIZE
VVSFS_INODE_BLOCK_OFF == 4
VVSFS_IMAP_INODES_PER_ENTRY == 8
VVSFS_MAX_INODE_ENTRIES == VVSFS_IMAP_SIZE * VVSFS_IMAP_INODES_PER_ENTRY

\* the file types of i_mode the code tests
S_IFCHR == 2^13
S_IFDIR == 2^14
S_IFREG == 2^15
S_IFLNK == 2^15 + 2^13

\* mode & S_IFMT of a 16-bit mode
ModeType(mode) == mode - (mode % 2^12)

\* offset of an inode record that ignores the inode number
inode_offset_zero(ino) == 0 * ino

vvsfs_get_inode_block(ino) ==
    VVSFS_INODE_BLOCK_OFF + INO_TO_BNO(ino) \div VVSFS_N_INODE_PER_BLOCK

vvsfs_get_inode_offset(ino) ==
    (INO_TO_BNO(ino) % VVSFS_N_INODE_PER_BLOCK) * VVSFS_INODESIZE

\* (uint32_t) of a 64-bit value, and a 32-bit value taken as 64-bit
Low32(v) == v[2]
Wide64(w) == <<0, w>>

\* struct vvsfs_inode as vvsfs_write_inode fills it
DiskInode(inode) ==
    [i_mode |-> inode.i_mode,
     i_uid |-> inode.i_uid,
     i_gid |-> inode.i_gid,
     i_size |-> Low32(inode.i_size),
     i_atime |-> Low32(inode.i_atime),
     i_mtime |-> Low32(inode.i_mtime),
     i_ctime |-> Low32(inode.i_ctime),
     i_data_blocks_count |-> inode.i_db_count,
     i_links_count |-> inode.i_nlink,
     i_rdev |-> inode.i_rdev,
     i_block |-> inode.i_data]

\* vvsfs_write_inode: the record of the inode in the table, a function of
\* <<block, offset>>
vvsfs_write_inode(table, inode) ==
    [loc \in (DOMAIN table) \cup {<<vvsfs_get_inode_block(inode.i_ino),
                                     vvsfs_get_inode_offset(inode.i_ino)>>} |->
        IF loc = <<vvsfs_get_inode_block(inode.i_ino), vvsfs_get_inode_offset(inode.i_ino)>>
        THEN DiskInode(inode)
        ELSE table[loc]]

\* the inode vvsfs_iget fills from the record d: i_rdev is set by
\* init_special_inode only, for a mode that is no regular file, directory
\* or symlink; i_mode is 16 bits wide
LoadedInode(ino, d) ==
    [i_ino |-> ino,
     i_mode |-> d.i_mode % 2^16,
     i_uid |-> d.i_uid,
     i_gid |-> d.i_gid,
     i_size |-> Wide64(d.i_size),
     i_atime |-> Wide64(d.i_atime),
     i_mtime |-> Wide64(d.i_mtime),
     i_ctime |-> Wide64(d.i_ctime),
     i_nlink |-> d.i_links_count,
     i_rdev |-> IF ModeType(d.i_mode % 2^16) \in {S_IFREG, S_IFDIR, S_IFLNK}
                THEN 0 ELSE d.i_rdev,
     i_db_count |-> d.i_data_blocks_count,
     i_data |-> d.i_block]

\* vvsfs_iget of an inode that is not in the inode cache
vvsfs_iget(table, ino) ==
    LoadedInode(ino, table[<<vvsfs_get_inode_block(ino), vvsfs_get_inode_offset(ino)>>])

\* the inodes written back: modes of the four kinds, times before 1970,
\* inside and after the range of 32 bits
TripModes == {S_IFREG + 420, S_IFDIR + 493, S_IFLNK + 511, S_IFCHR + 420}
TripTimes == {<<0, 0>>, <<0, 1700000000>>, <<0, -1>>, <<1, 0>>, <<-1, -1>>}
TripClock == {<<0, 1700000000>>, <<0, -1>>}
TripSizes == {<<0, 0>>, <<0, VVSFS_BLOCKSIZE * VVSFS_MAX_INODE_BLOCKS>>}
TripIds == {0, 1000}
TripInos == {1, 2, VVSFS_N_INODE_PER_BLOCK + 1}

TripData(c) == [k \in 0..(VVSFS_N_BLOCKS - 1) |-> IF k < c THEN k + 1 ELSE 0]

TripInode(ino, mode, id, size, atime, mtime, ctime, nlink, c) ==
    [i_ino |-> ino, i_mode |-> mode, i_uid |-> id, i_gid |-> id, i_size |-> size,
     i_atime |-> atime, i_mtime |-> mtime, i_ctime |-> ctime, i_nlink |-> nlink,
     i_rdev |-> IF ModeType(mode) = S_IFCHR THEN 2^8 + 3 ELSE 0,
     i_db_count |-> c, i_data |-> TripData(c)]

\* the plain inode every inode number is written with
PlainInode(ino) ==
    TripInode(ino, S_IFREG + 420, 0, <<0, 0>>, <<0, 0>>, <<0, 0>>, <<0, 1700000000>>, 1, 1)

TripInodes ==
    {PlainInode(ino) : ino \in 1..VVSFS_MAX_INODE_ENTRIES}
    \cup {TripInode(ino, mode, id, size, atime, mtime, ctime, nlink, c) :
             ino \in TripInos, mode \in TripModes, id \in TripIds, size \in TripSizes,
             atime \in TripTimes, mtime \in TripTimes, ctime \in TripClock,
             nlink \in {1, 2}, c \in {1, VVSFS_N_BLOCKS}}

\* the superblock operation write_inode, on a table with nothing written
WriteInode ==
    /\ rt.stage = "memory"
    /\ rt' = [rt EXCEPT !.stage = "written",
                        !.table = vvsfs_write_inode(rt.table, rt.inode)]
    /\ UNCHANGED <<volvars, bmvars, procvars>>

\* the inode is evicted and looked up again
Iget ==
    /\ rt.stage = "written"
    /\ rt' = [rt EXCEPT !.stage = "loaded",
                        !.loaded = vvsfs_iget(rt.table, rt.inode.i_ino)]
    /\ UNCHANGED <<volvars, bmvars, procvars>>

InitInode ==
    /\ imap = MkfsVolume.imap
    /\ dmap = MkfsVolume.dmap
    /\ inodes = MkfsVolume.inodes
    /\ disk = MkfsVolume.disk
    /\ ub = FALSE
    /\ last = NoOp
    /\ seed = <<0, 0, 0>>
    /\ plan = <<>>
    /\ steps = 0
    /\ bm_map = FreshMap
    /\ bm_size = 1
    /\ bm_res = 0
    /\ bm_free = 0
    /\ bm_last = [op |-> "none", pos |-> 0, ret |-> 0, before |-> FreshMap]
    /\ \E inode \in TripInodes :
          rt = [stage |-> "memory", inode |-> inode, table |-> <<>>, loaded |-> inode]
    /\ procs = NoProcs

NextInode == WriteInode \/ Iget

SpecInode == InitInode /\ [][NextInode]_vars

\* ------------------------------------------------------------------------
\* The allocator on its own: reserve and free calls on one bitmap
\* ------------------------------------------------------------------------
\* the state after a reserve call with result r
BmReserved(r) ==
    /\ bm_map' = r.map
    /\ bm_res' = IF r.ret # 0 THEN bm_res + 1 ELSE bm_res
    /\ bm_last' = [op |-> "reserve", pos |-> 0, ret |-> r.ret, before |-> bm_map]

BmReserve ==
    /\ bm_res + bm_free < BmMaxCalls
    /\ BmReserved(vvsfs_find_free_block(bm_map, bm_size))
    /\ UNCHANGED <<bm_size, bm_free, volvars, rtvars, procvars>>

\* free is applied to a position whose bit is set
BmFree(p) ==
    /\ bm_res + bm_free < BmMaxCalls
    /\ MapHas(bm_map, p)
    /\ bm_map' = vvsfs_free_block(bm_map, p)
    /\ bm_free' = bm_free + 1
    /\ bm_last' = [op |-> "free", pos |-> p, ret |-> 0, before |-> bm_map]
    /\ UNCHANGED <<bm_size, bm_res, volvars, rtvars, procvars>>

InitBitmap ==
    /\ imap = MkfsVolume.imap
    /\ dmap = MkfsVolume.dmap
    /\ inodes = MkfsVolume.inodes
    /\ disk = MkfsVolume.disk
    /\ ub = FALSE
    /\ last = NoOp
    /\ seed = <<0, 0, 0>>
    /\ plan = <<>>
    /\ steps = 0
    /\ bm_map = FreshMap
    /\ bm_size \in BmSizes
    /\ bm_res = 0
    /\ bm_free = 0
    /\ bm_last = [op |-> "none", pos |-> 0, ret |-> 0, before |-> FreshMap]
    /\ rt = NoTrip
    /\ procs = NoProcs

NextBitmap ==
    \/ BmReserve
    \/ \E p \in 0..(bm_size * 8 - 1) : BmFree(p)

SpecBitmap == InitBitmap /\ [][NextBitmap]_vars

\* ------------------------------------------------------------------------
\* Two namespace operations at once.  Each runs vvsfs_new_inode under the
\* lock the VFS holds on its own parent directory; the source takes no lock
\* of its own, so the loads and stores of vvsfs_find_free_block and
\* vvsfs_free_block on the bitmaps of vvsfs_sb_info interleave.  A process
\* is at bit (i, j) of a scan; byte is the value of map[i] it loaded when it
\* found the bit clear.
\* ------------------------------------------------------------------------
Procs == {1, 2}

\* the bitmaps the processes start on: as formatted, with one bit clear,
\* and full
RaceMaps == {FreshMap, 0 :> 254, 0 :> 255}

\* a process at the start of a scan
StartScan(pc, ino) == [pc |-> pc, i |-> 0, j |-> 0, byte |-> 0, ino |-> ino, dno |-> 0]

\* the map a process scans: imap in vvsfs_reserve_inode_block, dmap in
\* vvsfs_reserve_data_block
ScannedMap(r) == IF r.pc \in {"ino_test", "ino_set"} THEN procs.imap ELSE procs.dmap

\* byte | (VVSFS_SET_MAP_BIT >> j)
OrBit(byte, j) == IF MapBit(byte, j) THEN byte ELSE byte + MapMask(j)

\* the next bit of the loops of vvsfs_find_free_block
NextBit(r) ==
    IF r.j = 7 THEN [r EXCEPT !.i = @ + 1, !.j = 0] ELSE [r EXCEPT !.j = @ + 1]

\* the scan has run off the map: vvsfs_find_free_block returns 0, and
\* vvsfs_new_inode returns ENOSPC, after vvsfs_free_inode_block when the
\* inode was reserved
ScanEnded(r) ==
    IF r.pc = "ino_test" THEN [r EXCEPT !.pc = "failed"] ELSE [r EXCEPT !.pc = "ino_free"]

\* one evaluation of (~map[i]) & (VVSFS_SET_MAP_BIT >> j), with the loop
\* conditions before it
TestBit(p) ==
    /\ procs.run[p].pc \in {"ino_test", "dno_test"}
    /\ \E r \in {procs.run[p]} :
          procs' = [procs EXCEPT !.run[p] =
              IF r.i >= procs.size THEN ScanEnded(r)
              ELSE IF (r.i = 0 /\ r.j = 0) \/ MapBit(At(ScannedMap(r), r.i), r.j)
              THEN NextBit(r)
              ELSE [r EXCEPT !.pc = IF r.pc = "ino_test" THEN "ino_set" ELSE "dno_set",
                             !.byte = At(ScannedMap(r), r.i)]]
    /\ UNCHANGED <<volvars, bmvars, rtvars>>

\* map[i] = map[i] | (VVSFS_SET_MAP_BIT >> j); return i * 8 + j.  The value
\* or-ed is map[i] as it is now or as the test loaded it: the accesses race
TakeRaced(p) ==
    /\ procs.run[p].pc \in {"ino_set", "dno_set"}
    /\ \E r \in {procs.run[p]} : \E b \in {At(ScannedMap(r), r.i), r.byte} :
          procs' = IF r.pc = "ino_set"
                   THEN [procs EXCEPT !.imap = SetAt(@, r.i, OrBit(b, r.j)),
                                      !.run[p] = StartScan("dno_test",
                                                           BNO_TO_INO(r.i * 8 + r.j))]
                   ELSE [procs EXCEPT !.dmap = SetAt(@, r.i, OrBit(b, r.j)),
                                      !.run[p] = [r EXCEPT !.pc = "done",
                                                           !.dno = r.i * 8 + r.j]]
    /\ UNCHANGED <<volvars, bmvars, rtvars>>

\* vvsfs_free_inode_block after vvsfs_reserve_data_block returned 0
GiveBack(p) ==
    /\ procs.run[p].pc = "ino_free"
    /\ procs' = [procs EXCEPT !.imap = vvsfs_free_inode_block(@, procs.run[p].ino),
                              !.run[p] = [@ EXCEPT !.pc = "failed", !.ino = 0]]
    /\ UNCHANGED <<volvars, bmvars, rtvars>>

InitRace ==
    /\ imap = MkfsVolume.imap
    /\ dmap = MkfsVolume.dmap
    /\ inodes = MkfsVolume.inodes
    /\ disk = MkfsVolume.disk
    /\ ub = FALSE
    /\ last = NoOp
    /\ seed = <<0, 0, 0>>
    /\ plan = <<>>
    /\ steps = 0
    /\ bm_map = FreshMap
    /\ bm_size = 1
    /\ bm_res = 0
    /\ bm_free = 0
    /\ bm_last = [op |-> "none", pos |-> 0, ret |-> 0, before |-> FreshMap]
    /\ rt = NoTrip
    /\ \E im \in RaceMaps, dm \in RaceMaps, size \in BmSizes :
          procs = [imap |-> im, dmap |-> dm, size |-> size,
                   run |-> [p \in Procs |-> StartScan("ino_test", 0)]]

NextRace ==
    \/ \E p \in Procs : TestBit(p)
    \/ \E p \in Procs : TakeRaced(p)
    \/ \E p \in Procs : GiveBack(p)

SpecRace == InitRace /\ [][NextRace]_vars

\* ------------------------------------------------------------------------
\* Properties.  Observations of a volume the properties are stated with.
\* ------------------------------------------------------------------------
\* the allocated pointers of an indirect block
IndirectPointers(blk) == {k \in DOMAIN blk : blk[k] # 0}

\* the inode number in slot s of a directory, slots counted in logical
\* block order; 0 when the block of the slot cannot be read
SlotInoOf(fs, vi, s) ==
    IF sb_bread_ok(fs, ReadDentriesBlock(fs, vi, s \div VVSFS_N_DENTRY_PER_BLOCK))
    THEN SlotIno(fs, vi, s)
    ELSE 0

\* the slots of a directory are dense: i_size is a multiple of the dentry
\* size, the first i_size / 128 slots are in use and the other slots of the
\* allocated blocks are not
Dense(fs, vi) ==
    /\ vi.i_size % VVSFS_DENTRYSIZE = 0
    /\ \A s \in 0..(NumDentries(vi) - 1) :
          s \div VVSFS_N_DENTRY_PER_BLOCK < vi.i_db_count /\ SlotInoOf(fs, vi, s) # 0
    /\ \A s \in NumDentries(vi)..(vi.i_db_count * VVSFS_N_DENTRY_PER_BLOCK - 1) :
          SlotInoOf(fs, vi, s) = 0

\* a directory of n >= 1 entries has ceil(n / 8) blocks
Packed(vi) ==
    NumDentries(vi) >= 1 =>
        /\ vi.i_db_count * VVSFS_N_DENTRY_PER_BLOCK >= NumDentries(vi)
        /\ NumDentries(vi) > (vi.i_db_count - 1) * VVSFS_N_DENTRY_PER_BLOCK

\* the (name, inode number) entries of a directory
Entries(fs, dir) ==
    {<<SlotName(fs, fs.inodes[dir], s), SlotInoOf(fs, fs.inodes[dir], s)>> :
        s \in 0..(NumDentries(fs.inodes[dir]) - 1)}

\* the link count of an inode, 0 once it is gone
LinkCount(ino_table, i) == IF i \in DOMAIN ino_table THEN ino_table[i].i_nlink ELSE 0

\* C1: in every state reached from a formatted volume by namespace
\* operations, for every live inode the data-bitmap bit of each of its
\* logical blocks 0 .. i_db_count - 1 is set, and with i_db_count > 14 the
\* bit of the indirect block i_data[14] is set as well.
C1_BlocksAllocated ==
    \A i \in DOMAIN inodes :
        /\ \A k \in 0..(inodes[i].i_db_count - 1) :
              MapHas(dmap, ReadDentriesBlock(Vol, inodes[i], k))
        /\ inodes[i].i_db_count > LAST => MapHas(dmap, inodes[i].i_data[LAST])

\* C2: every block pointer of an inode that addresses none of its logical
\* blocks is zero: i_data[k] for i_db_count <= k < 14, i_data[14] when
\* i_db_count <= 14, and the pointers of the indirect block from index
\* i_db_count - 14 on when i_db_count > 14.
C2_UnusedPointersZero ==
    \A i \in DOMAIN inodes :
        /\ \A k \in 0..(LAST - 1) : k >= inodes[i].i_db_count => inodes[i].i_data[k] = 0
        /\ inodes[i].i_db_count <= LAST => inodes[i].i_data[LAST] = 0
        /\ inodes[i].i_db_count > LAST =>
              \A k \in IndirectPointers(BlockData(Vol, inodes[i].i_data[LAST])) :
                  k < inodes[i].i_db_count - LAST

\* C3: for every directory i_size is a multiple of 128, the first
\* i_size / 128 dentry slots in logical block order have inode_number # 0
\* and every later slot of the allocated blocks has inode_number = 0.
C3_DentriesDense == \A i \in Dirs(Vol) : Dense(Vol, inodes[i])

\* C4: every directory with n = i_size / 128 >= 1 entries has exactly
\* ceil(n / 8) data blocks, and a directory whose last entry was removed by
\* the last operation has given up its last block.
C4_BlocksMatchEntries ==
    /\ \A i \in Dirs(Vol) : Packed(inodes[i])
    /\ (/\ last.op \in {"unlink", "rmdir", "rename"}
        /\ last.err = "OK"
        /\ last.dir \in DOMAIN inodes
        /\ last.deallocs # <<>>)
       => \/ NumDentries(inodes[last.dir]) % VVSFS_N_DENTRY_PER_BLOCK # 0
          \/ inodes[last.dir].i_db_count * VVSFS_N_DENTRY_PER_BLOCK
                 = NumDentries(inodes[last.dir])

\* C5: when vvsfs_drop_inode_link takes a link count from 1 to 0, the
\* data-bitmap bits of all direct blocks of the inode, of all blocks its
\* indirect pointers name and of the indirect block, and its inode-bitmap
\* bit, are clear afterwards, and the call clears no other bit.
C5_DropFreesExactly ==
    \A k \in 1..Len(last.drops) :
        last.drops[k].vi.i_nlink = 1 =>
            /\ last.drops[k].dstill = {}
            /\ ~last.drops[k].istill
            /\ last.drops[k].dcleared \subseteq last.drops[k].owned
            /\ last.drops[k].icleared \subseteq {INO_TO_BNO(last.drops[k].ino)}

\* C6: position 0 stays reserved: bit 0 of the inode bitmap and bit 0 of
\* the data bitmap are set in every reachable state.
C6_PositionZeroReserved == MapHas(imap, 0) /\ MapHas(dmap, 0)

\* C4: a removal that released the last block of its directory and left
\* entries behind has acted.
C4_Witness ==
    /\ last.op = "unlink"
    /\ last.err = "OK"
    /\ last.deallocs # <<>>
    /\ last.dir \in DOMAIN inodes
    /\ NumDentries(inodes[last.dir]) >= VVSFS_N_DENTRY_PER_BLOCK

\* C5: the last link of a file with an indirect block has been dropped.
C5_Witness ==
    /\ last.op = "unlink"
    /\ \E k \in 1..Len(last.drops) :
          last.drops[k].vi.i_nlink = 1 /\ last.drops[k].vi.i_db_count > LAST

\* the set bits of a map of size bytes cover every position but 0
BmFull(map, size) == \A p \in 1..(size * 8 - 1) : MapHas(map, p)

\* C7: for any sequence of reserve and free calls on a fresh bitmap, free
\* applied to positions whose bit is set, the number of set bits is the
\* number of successful reservations minus the number of frees, plus 1.
C7_SetBitsCount == Cardinality(SetBits(bm_map)) = bm_res - bm_free + 1

\* C7: reservations and a free have been made, the last call a reserve.
C7_Witness == bm_res >= 2 /\ bm_free >= 1 /\ bm_last.op = "reserve"

\* C8: reserve returns 0 and leaves the map unchanged if and only if every
\* position 1 .. size * 8 - 1 is set; otherwise it returns the lowest clear
\* position p >= 1 and sets exactly bit p; it never takes position 0.
C8_ReserveLowestClear ==
    bm_last.op = "reserve" =>
        /\ (bm_last.ret = 0 /\ bm_map = bm_last.before)
              <=> BmFull(bm_last.before, bm_size)
        /\ ~BmFull(bm_last.before, bm_size) =>
              /\ bm_last.ret >= 1
              /\ ~MapHas(bm_last.before, bm_last.ret)
              /\ \A p \in 1..(bm_last.ret - 1) : MapHas(bm_last.before, p)
              /\ SetBits(bm_map) = SetBits(bm_last.before) \cup {bm_last.ret}
        /\ MapHas(bm_map, 0) = MapHas(bm_last.before, 0)

\* C8: reserve has been called on a map with every position from 1 on set.
C8_Witness ==
    bm_last.op = "reserve" /\ bm_last.ret = 0 /\ BmFull(bm_last.before, bm_size)

\* the last step was a successful rename onto an existing entry of another
\* inode
RenamedOver ==
    /\ steps' = steps + 1
    /\ last'.op = "rename"
    /\ last'.err = "OK"
    /\ last'.ino2 # 0
    /\ last'.ino2 # last'.ino

\* the last step was a successful rename to a name that did not exist
RenamedNew ==
    /\ steps' = steps + 1
    /\ last'.op = "rename"
    /\ last'.err = "OK"
    /\ last'.ino2 = 0

\* C9: after a successful rename whose target exists and is another inode,
\* lookup of old_name in old_parent finds nothing, lookup of new_name in
\* new_parent returns the source inode, the link count of the former target
\* is one lower, and both directories are dense and packed.
C9_RenameOverTarget ==
    [][RenamedOver =>
        /\ vvsfs_lookup(Vol', last'.dir, last'.name) = [err |-> "OK", ino |-> 0]
        /\ vvsfs_lookup(Vol', last'.dir2, last'.name2) = [err |-> "OK", ino |-> last'.ino]
        /\ LinkCount(inodes', last'.ino2) = LinkCount(inodes, last'.ino2) - 1
        /\ Dense(Vol', inodes'[last'.dir]) /\ Packed(inodes'[last'.dir])
        /\ Dense(Vol', inodes'[last'.dir2]) /\ Packed(inodes'[last'.dir2])]_vars

\* C10: after a successful rename to a name that does not exist in
\* new_parent, the entries of the two directories are those before the call
\* with (old_name, src) removed from old_parent and (new_name, src) added to
\* new_parent, no entry is duplicated, and the link count of the source is
\* unchanged.
C10_RenameNewFrame ==
    [][RenamedNew =>
        /\ IF last'.dir = last'.dir2
           THEN /\ Entries(Vol', last'.dir)
                     = (Entries(Vol, last'.dir) \ {<<last'.name, last'.ino>>})
                          \cup {<<last'.name2, last'.ino>>}
                /\ NumDentries(inodes'[last'.dir]) = NumDentries(inodes[last'.dir])
           ELSE /\ Entries(Vol', last'.dir)
                     = Entries(Vol, last'.dir) \ {<<last'.name, last'.ino>>}
                /\ Entries(Vol', last'.dir2)
                     = Entries(Vol, last'.dir2) \cup {<<last'.name2, last'.ino>>}
                /\ NumDentries(inodes'[last'.dir]) = NumDentries(inodes[last'.dir]) - 1
                /\ NumDentries(inodes'[last'.dir2]) = NumDentries(inodes[last'.dir2]) + 1
        /\ LinkCount(inodes', last'.ino) = LinkCount(inodes, last'.ino)]_vars

\* the step left the volume as it was: bitmaps, inodes and blocks
VolumeUnchanged == UNCHANGED <<imap, dmap, inodes, disk>>

\* the step is a call of rename whose target exists and is the inode of the
\* source
RenamedSame ==
    /\ steps' = steps + 1
    /\ last'.op = "rename"
    /\ last'.ino2 # 0
    /\ last'.ino2 = last'.ino

C12_NoReplaceExists ==
    [][(/\ steps' = steps + 1
        /\ last'.op = "rename"
        /\ "RENAME_NOREPLACE" \in last'.flags
        /\ last'.ino2 # 0)
       => last'.err = "EEXIST" /\ VolumeUnchanged]_vars

\* the step is a call of rename without flags whose target exists and is
\* another inode than the source
RenamedOnto ==
    /\ steps' = steps + 1
    /\ last'.op = "rename"
    /\ last'.flags = {}
    /\ last'.ino2 # 0
    /\ last'.ino2 # last'.ino

\* C13: a rename of a directory over an existing target fails with
\* ENOTEMPTY when the target is a directory with entries and with ENOTDIR
\* when the target is not a directory; a rename of a non-directory over a
\* directory fails with EISDIR; in each case the volume is unchanged.  The
\* target is another inode than the source.
C13_RenameTypeErrors ==
    [][RenamedOnto =>
        /\ (/\ S_ISDIR(Vol, last'.ino) /\ S_ISDIR(Vol, last'.ino2)
            /\ inodes[last'.ino2].i_size > 0)
              => last'.err = "ENOTEMPTY" /\ VolumeUnchanged
        /\ (S_ISDIR(Vol, last'.ino) /\ ~S_ISDIR(Vol, last'.ino2))
              => last'.err = "ENOTDIR" /\ VolumeUnchanged
        /\ (~S_ISDIR(Vol, last'.ino) /\ S_ISDIR(Vol, last'.ino2))
              => last'.err = "EISDIR" /\ VolumeUnchanged]_vars

\* C13: a directory has been renamed over a directory that holds an entry.
C13_Witness ==
    /\ last.op = "rename"
    /\ last.err = "ENOTEMPTY"
    /\ last.ino \in Dirs(Vol)
    /\ last.ino2 \in Dirs(Vol)
    /\ last.ino2 # last.ino
    /\ inodes[last.ino2].i_size > 0

\* C14: rmdir fails with ENOTEMPTY and changes nothing exactly when the
\* victim holds at least one entry (i_size > 0); on a victim without
\* entries it removes the entry of the parent and, the link count reaching
\* 0, clears the inode-bitmap bit of the victim.
C14_RmdirEmptiness ==
    [][(steps' = steps + 1 /\ last'.op = "rmdir") =>
        IF inodes[last'.ino].i_size > 0
        THEN last'.err = "ENOTEMPTY" /\ VolumeUnchanged
        ELSE /\ last'.err = "OK"
             /\ vvsfs_lookup(Vol', last'.dir, last'.name) = [err |-> "OK", ino |-> 0]
             /\ NumDentries(inodes'[last'.dir]) = NumDentries(inodes[last'.dir]) - 1
             /\ ~MapHas(imap', INO_TO_BNO(last'.ino))]_vars

\* C15: after k successive creates in the root of a fresh volume the k-th
\* file has inode number k + 1, a readdir of the root from position 0 yields
\* exactly the k pairs (name, inode) in the order of the calls, and the
\* root's i_size is 128 * k.
C15_CreatesInOrder ==
    /\ last.op = "create" => last.err = "OK" /\ last.ino = steps + 1
    /\ vvsfs_readdir(Vol, ROOT_INO, 0, VVSFS_MAX_DENTRIES) =
          [err |-> "OK",
           entries |-> [k \in 1..steps |-> <<SeedName(k), k + 1>>],
           pos |-> VVSFS_DENTRYSIZE * steps]
    /\ inodes[ROOT_INO].i_size = VVSFS_DENTRYSIZE * steps

\* the chain has filled the direct blocks of the root and gone on
C15_Witness ==
    /\ last.op = "create"
    /\ last.err = "OK"
    /\ steps > VVSFS_LAST_DIRECT_BLOCK_INDEX * VVSFS_N_DENTRY_PER_BLOCK
    /\ Len(vvsfs_readdir(Vol, ROOT_INO, 0, VVSFS_MAX_DENTRIES).entries) = steps

\* the (name, inode) pairs a readdir of dir from position 0 yields
Listing(fs, dir) == vvsfs_readdir(fs, dir, 0, VVSFS_MAX_DENTRIES).entries

\* the place of name in a listing (1 for the first entry), 0 when absent
PlaceOf(listing, name) ==
    IF \E k \in 1..Len(listing) : listing[k][1] = name
    THEN MinOf({k \in 1..Len(listing) : listing[k][1] = name})
    ELSE 0

\* the last step removed an entry by unlink or rmdir
RemovedEntry ==
    /\ steps' = steps + 1
    /\ last'.op \in {"unlink", "rmdir"}
    /\ last'.err = "OK"

\* slot s of the directory vi of fs is all zero in the volume after
SlotZeroed(fs, vi, s, after) ==
    BlockData(after, ReadDentriesBlock(fs, vi, s \div VVSFS_N_DENTRY_PER_BLOCK))
       = ZeroDentry(BlockData(after,
                        ReadDentriesBlock(fs, vi, s \div VVSFS_N_DENTRY_PER_BLOCK)),
                    s % VVSFS_N_DENTRY_PER_BLOCK)

\* removing the entry at place p of the listing before leaves the listing
\* after: the former last entry at place p, the others where they were
RemovedAt(before, after, p) ==
    /\ p # 0
    /\ after = [k \in 1..(Len(before) - 1) |->
                   IF k = p THEN before[Len(before)] ELSE before[k]]

\* C16: removing the entry at slot p of a directory with n entries leaves
\* n - 1 entries in slots 0..n-2, every slot other than p keeps its entry,
\* slot p holds the entry that was at slot n - 1 (when p # n - 1) and slot
\* n - 1 is zeroed, so readdir returns the previous order with the former
\* last entry in the victim's position.
C16_RemoveSwapsLast ==
    [][RemovedEntry =>
        /\ \E before \in {Listing(Vol, last'.dir)}, after \in {Listing(Vol', last'.dir)} :
              \E p \in {PlaceOf(before, last'.name)} : RemovedAt(before, after, p)
        /\ NumDentries(inodes'[last'.dir]) = NumDentries(inodes[last'.dir]) - 1
        /\ SlotZeroed(Vol, inodes[last'.dir], NumDentries(inodes[last'.dir]) - 1,
                      Vol')]_vars

\* the last step added an entry to directory d, which held exactly
\* DirectEntries entries in its direct blocks
AddedIndirect(d) ==
    /\ NumDentries(inodes[d]) = DirectEntries
    /\ inodes[d].i_db_count = VVSFS_LAST_DIRECT_BLOCK_INDEX
    /\ d \in DOMAIN inodes'
    /\ NumDentries(inodes'[d]) = DirectEntries + 1

\* the data blocks the last step reserved for a new inode
NewInodeBlocks ==
    IF last'.op \in {"create", "mkdir", "symlink", "mknod"} THEN 1 ELSE 0

\* C17: adding an entry to a directory that holds exactly 14 * 8 entries in
\* 14 direct blocks reserves exactly two data blocks, the indirect block
\* and the payload block; afterwards i_db_count = 15, i_data[14] # 0 is the
\* indirect block, indirect pointer 0 is the payload block's bitmap
\* position and i_data[0..13] are unchanged.
C17_AddReservesIndirect ==
    [][\A d \in Dirs(Vol) : AddedIndirect(d) =>
        /\ SetBits(dmap) \subseteq SetBits(dmap')
        /\ Cardinality(SetBits(dmap') \ SetBits(dmap)) = 2 + NewInodeBlocks
        /\ inodes'[d].i_db_count = VVSFS_N_BLOCKS
        /\ inodes'[d].i_data[LAST] # 0
        /\ inodes'[d].i_data[LAST] \in SetBits(dmap') \ SetBits(dmap)
        /\ read_int_from_buffer(BlockData(Vol', inodes'[d].i_data[LAST]), 0)
              \in (SetBits(dmap') \ SetBits(dmap)) \ {inodes'[d].i_data[LAST]}
        /\ SlotIno(Vol', inodes'[d], DirectEntries) # 0
        /\ \A k \in 0..(LAST - 1) : inodes'[d].i_data[k] = inodes[d].i_data[k]]_vars

\* an operation on the prepared volume has added the 113th entry of the
\* root, after an unlink had taken the root back to its direct blocks
C17_Witness ==
    /\ steps = 2
    /\ last.op \in {"create", "link", "mkdir"}
    /\ last.err = "OK"
    /\ NumDentries(inodes[ROOT_INO]) = DirectEntries + 1
    /\ inodes[ROOT_INO].i_db_count = VVSFS_N_BLOCKS

\* the step is a create or mkdir whose vvsfs_new_inode succeeded and whose
\* vvsfs_add_new_entry failed
AddFailed ==
    /\ last'.op \in {"create", "mkdir"}
    /\ last'.err \notin {"OK", "ENAMETOOLONG"}
    /\ vvsfs_new_inode(Vol, "S_IFREG").err = "OK"

\* the indirect pointers of inode vi in use, none while it has no indirect block
IndirectMap(fs, vi) ==
    IF vi.i_db_count < VVSFS_N_BLOCKS THEN <<>>
    ELSE [k \in 0..(vi.i_db_count - VVSFS_N_BLOCKS) |->
             read_int_from_buffer(BlockData(fs, vi.i_data[LAST]), k)]

\* C18: when create or mkdir fails because adding the dentry fails (the
\* parent holds 270 * 8 entries, or no data block is free for the parent's
\* new block), the new inode and its data block are released: both
\* bitmaps and the parent's i_size, i_db_count and block map are equal to
\* their values before the call.
C18_FailedAddReleases ==
    [][AddFailed =>
        /\ imap' = imap
        /\ dmap' = dmap
        /\ DOMAIN inodes' = DOMAIN inodes
        /\ inodes'[last'.dir].i_size = inodes[last'.dir].i_size
        /\ inodes'[last'.dir].i_db_count = inodes[last'.dir].i_db_count
        /\ inodes'[last'.dir].i_data = inodes[last'.dir].i_data
        /\ IndirectMap(Vol', inodes'[last'.dir])
              = IndirectMap(Vol, inodes[last'.dir])]_vars

\* a create or mkdir on a root with 14 * 8 entries and two free data blocks
\* has failed: the new inode took one block, the indirect block the other,
\* none was left for the payload block, and both were freed again
C18_Witness ==
    /\ steps = 1
    /\ ~ub
    /\ last.op \in {"create", "mkdir"}
    /\ last.err = "ENOSPC"
    /\ NumDentries(inodes[ROOT_INO]) = DirectEntries
    /\ Len(last.frees) = 2

\* a create or mkdir on a root with 270 * 8 entries has failed
C18_WitnessFullDir ==
    /\ steps = 1
    /\ ~ub
    /\ last.op \in {"create", "mkdir"}
    /\ last.err # "OK"
    /\ NumDentries(inodes[ROOT_INO]) = VVSFS_MAX_DENTRIES

\* the name the call of the step is to store
NewNameOf(rec) == IF rec.op = "rename" THEN rec.name2 ELSE rec.name

\* the step is a call of an operation that stores a name, with a name
\* longer than VVSFS_MAXNAME bytes
LongCall ==
    /\ steps' = steps + 1
    /\ last'.op \in {"create", "mkdir", "mknod", "symlink", "link", "rename"}
    /\ Len(NewNameOf(last')) > VVSFS_MAXNAME

\* the call is refused for another argument before its name is looked at:
\* rename with RENAME_EXCHANGE or RENAME_WHITEOUT, mknod with a device
\* number old_valid_dev refuses
RefusedFirst(rec) ==
    \/ rec.op = "rename" /\ rec.flags \cap {"RENAME_EXCHANGE", "RENAME_WHITEOUT"} # {}
    \/ rec.op = "mknod" /\ rec.flags # {}

\* every name a directory holds ends before the last byte of its field
StoredNamesFit ==
    \A d \in Dirs(Vol) : \A s \in 0..(NumDentries(inodes[d]) - 1) :
        SlotReadable(Vol, inodes[d], s) =>
            strnlen(SlotBlock(Vol, inodes[d], s),
                    VVSFS_DENTRYSIZE * (s % VVSFS_N_DENTRY_PER_BLOCK),
                    VVSFS_MAXNAME + 1, 0) <= VVSFS_MAXNAME

\* C19 as stated: create, mkdir, mknod, symlink, link and rename called
\* with a new name longer than 123 bytes fail with NAME_TOO_LONG and change
\* nothing.
C19_LongNameTooLong ==
    [][LongCall => last'.err = "ENAMETOOLONG" /\ VolumeUnchanged]_vars

\* C19: no directory entry holds a name longer than 123 bytes: create,
\* mkdir, mknod, symlink, link and rename called with a new name longer than
\* 123 bytes fail and change nothing; they fail with NAME_TOO_LONG, except
\* rename with the EXCHANGE or WHITEOUT flag and mknod with a refused
\* device number, which fail with INVALID.
C19_LongNameRefused ==
    /\ []StoredNamesFit
    /\ [][LongCall =>
            /\ VolumeUnchanged
            /\ last'.err = IF RefusedFirst(last') THEN "EINVAL"
                            ELSE "ENAMETOOLONG"]_vars

\* a rename to a name of 124 bytes has failed with ENAMETOOLONG beside an
\* entry whose name has 123 bytes
C19_Witness ==
    /\ last.op = "rename"
    /\ Len(last.name2) > VVSFS_MAXNAME
    /\ last.err = "ENAMETOOLONG"
    /\ DInode(Vol, ROOT_INO, MaxName) # 0

\* the step is a call of vvsfs_file_get_block for a block no file can have
BlockPastLimit ==
    /\ steps' = steps + 1
    /\ last'.op = "get_block"
    /\ last'.iblock >= VVSFS_MAX_INODE_BLOCKS

\* C20: vvsfs_file_get_block called with logical block b >= 270 fails with
\* EFBIG and changes nothing, and in every reachable state every inode has
\* i_db_count <= 270.
C20_BlockLimit ==
    /\ [](\A i \in DOMAIN inodes : inodes[i].i_db_count <= VVSFS_MAX_INODE_BLOCKS)
    /\ [][BlockPastLimit => last'.err = "EFBIG" /\ VolumeUnchanged]_vars

\* a write to block 270 of a file that has 270 blocks has failed with EFBIG
C20_Witness ==
    /\ last.op = "get_block"
    /\ last.iblock = VVSFS_MAX_INODE_BLOCKS
    /\ last.err = "EFBIG"
    /\ last.ino \in DOMAIN inodes
    /\ inodes[last.ino].i_db_count = VVSFS_MAX_INODE_BLOCKS

\* the fields of the round trip are those of the inode written back
SameInode(a, b) ==
    /\ a.i_mode = b.i_mode
    /\ a.i_uid = b.i_uid
    /\ a.i_gid = b.i_gid
    /\ a.i_size = b.i_size
    /\ a.i_atime = b.i_atime
    /\ a.i_mtime = b.i_mtime
    /\ a.i_ctime = b.i_ctime
    /\ a.i_nlink = b.i_nlink
    /\ a.i_rdev = b.i_rdev
    /\ a.i_db_count = b.i_db_count
    /\ a.i_data = b.i_data

\* C21: for any in-memory inode, writing it back with vvsfs_write_inode and
\* loading the same inode number with vvsfs_iget yields mode, uid, gid,
\* size, atime, mtime, ctime (seconds), link count, rdev, i_db_count and
\* all 15 i_data slots equal to those written.
C21_InodeRoundTrip == rt.stage = "loaded" => SameInode(rt.loaded, rt.inode)

\* the seconds of a time fit the 32 bits of the record
InRecordRange(inode) ==
    /\ inode.i_atime[1] = 0
    /\ inode.i_mtime[1] = 0
    /\ inode.i_ctime[1] = 0

\* the round trip of the inodes whose times lie in 1970..2106
RoundTripInRange ==
    rt.stage = "loaded" /\ InRecordRange(rt.inode) => SameInode(rt.loaded, rt.inode)

\* C22: for every inode number in 1..4096 the pair of block and offset of
\* its record differs from the pair of every other inode number, the block
\* lies in the inode table 4..4099 and the 256-byte record lies inside the
\* 1024-byte block.
C22_RecordPlaces ==
    rt.stage = "memory" =>
        /\ \A other \in (1..VVSFS_MAX_INODE_ENTRIES) \ {rt.inode.i_ino} :
              <<vvsfs_get_inode_block(other), vvsfs_get_inode_offset(other)>>
                 # <<vvsfs_get_inode_block(rt.inode.i_ino),
                      vvsfs_get_inode_offset(rt.inode.i_ino)>>
        /\ vvsfs_get_inode_block(rt.inode.i_ino)
              \in VVSFS_INODE_BLOCK_OFF..(VVSFS_DATA_BLOCK_OFF - 1)
        /\ vvsfs_get_inode_offset(rt.inode.i_ino) >= 0
        /\ vvsfs_get_inode_offset(rt.inode.i_ino) + VVSFS_INODESIZE <= VVSFS_BLOCKSIZE

\* the last inode number is about to be written: its record is the last of
\* the last block the inode numbers of the bitmap reach
C22_Witness ==
    /\ rt.stage = "memory"
    /\ rt.inode.i_ino = VVSFS_MAX_INODE_ENTRIES
    /\ vvsfs_get_inode_block(rt.inode.i_ino) =
          VVSFS_INODE_BLOCK_OFF + VVSFS_MAX_INODE_ENTRIES \div VVSFS_N_INODE_PER_BLOCK - 1
    /\ vvsfs_get_inode_offset(rt.inode.i_ino) = VVSFS_BLOCKSIZE - VVSFS_INODESIZE

\* the error kind of a failed vvsfs_find_entry: 1 (the name is not there) is
\* NOT_FOUND, a negative value its errno
FindKind(f) == IF f.err = "NOTFOUND" THEN "ENOENT" ELSE f.err

\* the kind of the first inner step of create, mknod and symlink that fails:
\* vvsfs_new_inode (n), then vvsfs_add_new_entry
NewEntryKind(dir, name, n) ==
    IF n.err # "OK" THEN n.err ELSE vvsfs_add_new_entry(n.fs, dir, name, n.ret).err

\* the same after the entry is found (f): vvsfs_delete_entry_bufloc, then
\* vvsfs_drop_inode_link
UnlinkFoundKind(fs, dir, inode, f, d) ==
    IF f.err # "OK" THEN FindKind(f)
    ELSE IF d.err # "OK" THEN d.err
    ELSE vvsfs_drop_inode_link(d.fs, inode).err

\* the same for a rename whose arguments pass its checks: the find of the
\* source (src), the find of the target or the add of the new entry, the
\* delete of the source
RenameKind(fs, rec, src, dst) ==
    IF src.err # "OK" THEN FindKind(src)
    ELSE IF rec.ino2 # 0 /\ dst.err # "OK" THEN FindKind(dst)
    ELSE rename_found(fs, rec.dir, rec.ino, rec.dir2, rec.name2, rec.ino2, src).err

\* the kind of the first inner step that fails in the operation rec names,
\* applied to the volume fs; "OK" when none fails
InnerKind(fs, rec) ==
    CASE rec.op = "create" -> NewEntryKind(rec.dir, rec.name, vvsfs_new_inode(fs, "S_IFREG"))
      [] rec.op = "mknod" -> NewEntryKind(rec.dir, rec.name, vvsfs_new_inode(fs, "S_IFCHR"))
      [] rec.op = "symlink" -> NewEntryKind(rec.dir, rec.name, vvsfs_new_inode(fs, "S_IFLNK"))
      [] rec.op = "unlink" ->
            UnlinkFoundKind(fs, rec.dir, rec.ino, vvsfs_find_entry(fs, rec.dir, rec.name),
                vvsfs_delete_entry_bufloc(fs, rec.dir,
                                          vvsfs_find_entry(fs, rec.dir, rec.name).loc))
      [] rec.op = "rename" ->
            RenameKind(fs, rec, vvsfs_find_entry(fs, rec.dir, rec.name),
                       vvsfs_find_entry(fs, rec.dir2, rec.name2))
      [] OTHER -> "OK"

\* a step that applies a namespace operation to the volume whose inner
\* steps are reached: for rename, one of files to another name or over
\* another file
InnerStepsReached(rec) ==
    /\ steps' = steps + 1
    /\ rec.op \in {"create", "mknod", "symlink", "unlink", "rename"}
    /\ rec.op = "rename" =>
          /\ rec.ino2 # rec.ino
          /\ ~S_ISDIR(Vol, rec.ino)
          /\ rec.ino2 # 0 => ~S_ISDIR(Vol, rec.ino2)

\* C23: whenever an inner step of a namespace operation (inode allocation,
\* find, add, block read) fails with error kind K, the operation (create,
\* mknod, symlink, unlink, rename) returns the same kind K to its caller.
C23_ErrorsPropagate ==
    [][InnerStepsReached(last') /\ InnerKind(Faulty(Vol, last'.bad), last') # "OK"
          => last'.err = InnerKind(Faulty(Vol, last'.bad), last')]_vars

\* the same for the operations whose find succeeds or does not find the name
FindReads(fs, rec) ==
    /\ rec.op = "unlink" => vvsfs_find_entry(fs, rec.dir, rec.name).err \in {"OK", "NOTFOUND"}
    /\ rec.op = "rename" =>
          /\ vvsfs_find_entry(fs, rec.dir, rec.name).err \in {"OK", "NOTFOUND"}
          /\ vvsfs_find_entry(fs, rec.dir2, rec.name2).err \in {"OK", "NOTFOUND"}

PropagatesWhenFindReads ==
    [][InnerStepsReached(last') /\ FindReads(Faulty(Vol, last'.bad), last')
          /\ InnerKind(Faulty(Vol, last'.bad), last') # "OK"
          => last'.err = InnerKind(Faulty(Vol, last'.bad), last')]_vars

\* the inode number and the data position process p holds
Holds(p) == procs.run[p]

\* C24: when two namespace operations on different parent directories run
\* concurrently on one volume, under every interleaving they never obtain
\* the same inode number and never obtain the same data-block position.
C24_ReservationsExclusive ==
    \A p \in DOMAIN procs.run : \A q \in (DOMAIN procs.run) \ {p} :
        /\ Holds(p).ino # 0 => Holds(p).ino # Holds(q).ino
        /\ Holds(p).dno # 0 => Holds(p).dno # Holds(q).dno

\* the calls of kind on the buffer of block b among the first n of a log
Calls(log, kind, b, n) == Cardinality({k \in 1..n : log[k] = <<kind, b>>})

\* the blocks whose buffer a log obtains or releases
Buffers(log) == {log[k][2] : k \in {x \in DOMAIN log : log[x][1] \in {"get", "put"}}}

\* every buffer obtained is released, and none is released more often than
\* it was obtained
ReleasedOnce(log) ==
    \A b \in Buffers(log) :
        /\ Calls(log, "get", b, Len(log)) = Calls(log, "put", b, Len(log))
        /\ \A n \in 1..Len(log) : Calls(log, "put", b, n) <= Calls(log, "get", b, n)

NamespaceOps == {"create", "mknod", "symlink", "link", "unlink", "rmdir", "rename"}

\* C25: every block buffer a namespace operation acquires (including the
\* buffer find retains for the caller) is released exactly once by the time
\* the operation returns, on the success path and on every error path of
\* unlink, rename and the remove and shift-back helpers.
C25_BuffersReleasedOnce == last.op \in NamespaceOps => ReleasedOnce(last.log)

\* the same for the operations that return success
ReleasedOnceOnSuccess ==
    last.op \in NamespaceOps /\ last.err = "OK" => ReleasedOnce(last.log)

\* every write to a buffer in a log is followed by sync_dirty_buffer of that
\* buffer
WritesSynced(log) ==
    \A k \in DOMAIN log :
        log[k][1] = "write" =>
            \E j \in (k + 1)..Len(log) : log[j][1] = "sync" /\ log[j][2] = log[k][2]

\* the operations that write directory blocks and indirect blocks only
AddingOps == {"create", "mknod", "link"}
RemovingOps == {"unlink", "rmdir", "rename"}

\* C26: when a namespace operation returns success, every directory block
\* and indirect block it modified has already been synced to the device,
\* not merely marked dirty; this holds for unlink, rmdir and rename as well
\* as for create and link.
C26_SyncedOnSuccess ==
    last.op \in AddingOps \cup RemovingOps /\ last.err = "OK" => WritesSynced(last.log)

\* the same for the operations that add an entry only
SyncedAfterAdd ==
    last.op \in AddingOps /\ last.err = "OK" => WritesSynced(last.log)

\* a block in which the entry called name holds inode number ino
NamedIn(blk, name, ino) ==
    \E d \in 0..(VVSFS_N_DENTRY_PER_BLOCK - 1) :
        namecmp(blk, d, name) /\ DentryIno(blk, d) = ino

\* before call n of a log the block with the entry name was synced with the
\* entry holding inode number ino and no longer the number gone
ExchangeSyncedBefore(log, n, name, ino, gone) ==
    \E k \in 1..(n - 1) :
        /\ log[k][1] = "sync"
        /\ NamedIn(log[k][3], name, ino)
        /\ ~NamedIn(log[k][3], name, gone)

\* C27: in the dentry exchange of a rename over an existing target, the
\* block that holds the rewritten dentry is synced to the device before the
\* link count of the previous target is decremented and before any of its
\* blocks or its inode-bitmap bit is freed, so the persisted dentry does not
\* name an inode whose link count is already 0.
C27_ExchangeSyncedFirst ==
    last.op = "rename" /\ last.ino2 # 0 /\ last.ino2 # last.ino =>
        \A n \in DOMAIN last.log :
            last.log[n][1] \in {"nlink", "free", "ifree"} =>
                ExchangeSyncedBefore(last.log, n, last.name2, last.ino, last.ino2)

\* a rename over a file with one link has succeeded: the link count of the
\* target fell to 0 and its block and its inode were freed
C27_Witness ==
    /\ last.op = "rename"
    /\ last.err = "OK"
    /\ last.ino2 # 0
    /\ last.ino2 # last.ino
    /\ \E n \in DOMAIN last.log : last.log[n] = <<"nlink", last.ino2, 0>>
    /\ \E n \in DOMAIN last.log : last.log[n] = <<"ifree", last.ino2>>
    /\ \E n \in DOMAIN last.log : last.log[n][1] = "free"

\* the step is a call of vvsfs_file_get_block past the blocks of the file,
\* or for the block after its last without create
PastEndOrNoCreate ==
    /\ steps' = steps + 1
    /\ last'.op = "get_block"
    /\ \/ last'.iblock > inodes[last'.ino].i_db_count
       \/ last'.iblock = inodes[last'.ino].i_db_count /\ ~last'.create

\* no call of the log maps a buffer
NoMap(log) == \A n \in DOMAIN log : log[n][1] # "map"

\* the call has returned 0, mapped no block and changed nothing
NothingMapped ==
    /\ last'.err = "OK"
    /\ NoMap(last'.log)
    /\ VolumeUnchanged

\* C28 as stated: vvsfs_file_get_block called with b > i_db_count, or with
\* b = i_db_count and create = false, returns 0 without mapping a block and
\* changes nothing: the data bitmap, i_db_count and i_data are as before.
C28_PastEndReturnsZero == [][PastEndOrNoCreate => NothingMapped]_vars

\* C28, amended: vvsfs_file_get_block called with b < 270 and either
\* b > i_db_count, or b = i_db_count and create = false, returns 0 without
\* mapping a block; with b >= 270 it fails with EFBIG; in both cases the
\* data bitmap, i_db_count and i_data are as before the call.
C28_PastEndBelowLimit ==
    [][PastEndOrNoCreate =>
           /\ VolumeUnchanged
           /\ NoMap(last'.log)
           /\ last'.err = (IF last'.iblock >= VVSFS_MAX_INODE_BLOCKS THEN "EFBIG" ELSE "OK")]_vars

\* a read of the block after the last of a file that has blocks, and can
\* have more, has returned 0 and mapped nothing
C28_Witness ==
    /\ last.op = "get_block"
    /\ ~last.create
    /\ last.ino \in DOMAIN inodes
    /\ last.iblock = inodes[last.ino].i_db_count
    /\ last.iblock > 0
    /\ last.iblock < VVSFS_MAX_INODE_BLOCKS
    /\ last.err = "OK"
    /\ NoMap(last.log)

\* the data positions no bit of the data bitmap marks as taken
FreeDataPositions(map) == VVSFS_DMAP_SIZE * 8 - Cardinality(SetBits(map))

\* the step is a write that extends a file of 14 blocks, which needs its
\* indirect block, on a volume with n free data positions
NeedsIndirect(n) ==
    /\ steps' = steps + 1
    /\ last'.op = "get_block"
    /\ last'.create
    /\ last'.iblock = LAST
    /\ inodes[last'.ino].i_db_count = LAST
    /\ FreeDataPositions(dmap) = n

\* C29: when vvsfs_assign_data_block needs a new indirect block
\* (i_db_count = 14, b = 14) and exactly one data block is free, it fails
\* with ENOSPC and leaves the data bitmap, i_db_count and all of i_data,
\* i_data[14] = 0 included, exactly as before the call.
C29_IndirectNeedsTwo ==
    [][NeedsIndirect(1) =>
           /\ last'.err = "ENOSPC"
           /\ dmap' = dmap
           /\ inodes' = inodes
           /\ inodes'[last'.ino].i_data[LAST] = 0]_vars

\* a write to block 14 of a file of 14 blocks has failed with ENOSPC on a
\* volume with one free data position, which is free again
C29_Witness ==
    /\ last.op = "get_block"
    /\ last.create
    /\ last.iblock = LAST
    /\ last.err = "ENOSPC"
    /\ last.ino \in DOMAIN inodes
    /\ inodes[last.ino].i_db_count = LAST
    /\ inodes[last.ino].i_data[LAST] = 0
    /\ last.frees # <<>>
    /\ FreeDataPositions(dmap) = 1

\* the positions an operation freed in the data bitmap
Freed(rec) == {rec.frees[n][1] : n \in DOMAIN rec.frees}

\* the position the next vvsfs_reserve_data_block hands out
NextReserved == vvsfs_reserve_data_block(dmap).ret

\* the step is a write that extends a file behind its direct blocks while
\* the device fails to read the indirect block: the one the file has, or
\* the one this call reserves when created is set
IndirectReadFails(created) ==
    /\ steps' = steps + 1
    /\ last'.op = "get_block"
    /\ last'.create
    /\ last'.iblock >= LAST
    /\ last'.iblock = inodes[last'.ino].i_db_count
    /\ created = (inodes[last'.ino].i_db_count < VVSFS_N_BLOCKS)
    /\ IF created THEN Cardinality(NextPositions(Vol)) = 2 /\ NextReserved \in last'.bad
       ELSE inodes[last'.ino].i_data[LAST] \in last'.bad

\* the positions the call reserved: one for the block, and one before it
\* for the indirect block when the call created it
ReservedByCall(created) == IF created THEN NextPositions(Vol) ELSE {NextReserved}

\* the call has failed, has released the positions it reserved and no
\* other, and has not advanced i_db_count
ReservedReleased(created) ==
    /\ last'.err = "EIO"
    /\ Freed(last') = ReservedByCall(created)
    /\ dmap' = dmap
    /\ inodes'[last'.ino].i_db_count = inodes[last'.ino].i_db_count

\* C30: if reading the indirect block fails in vvsfs_assign_data_block, the
\* data blocks reserved by this call, and only those, are released in the
\* data bitmap and i_db_count is not advanced, both when the indirect block
\* was created in this call and when it already existed.
C30_ReservedReleased ==
    [][\A created \in BOOLEAN : IndirectReadFails(created) => ReservedReleased(created)]_vars

\* the same when the indirect block was created in this call
ReleasedWhenCreated == [][IndirectReadFails(TRUE) => ReservedReleased(TRUE)]_vars

\* a write behind the direct blocks of a file that has its indirect block
\* has failed on the read of that block
ExistingIndirectUnread ==
    /\ last.op = "get_block"
    /\ last.err = "EIO"
    /\ last.ino \in DOMAIN inodes
    /\ inodes[last.ino].i_db_count >= VVSFS_N_BLOCKS
    /\ last.iblock = inodes[last.ino].i_db_count

\* the step is an operation that adds an entry to a directory that holds
\* the largest number of entries
AddToFullDir ==
    /\ steps' = steps + 1
    /\ last'.op \in {"create", "mkdir", "link", "symlink", "mknod"}
    /\ last'.dir \in DOMAIN inodes
    /\ NumDentries(inodes[last'.dir]) = VVSFS_MAX_DENTRIES

\* the add has failed with ENOSPC: the only position freed is the block of
\* the new inode, so the add reserved none, and the directory, its blocks
\* and the data bitmap are as before
AddRefused ==
    /\ last'.err = "ENOSPC"
    /\ Len(last'.frees) = NewInodeBlocks
    /\ dmap' = dmap
    /\ disk' = disk
    /\ inodes'[last'.dir] = inodes[last'.dir]

\* C31: vvsfs_add_new_entry on a directory that already holds 270 * 8 =
\* 2160 entries fails with ENOSPC without reserving any block and without
\* changing the directory; no directory ever has more than 2160 entries.
C31_FullDirRefuses ==
    /\ [](\A d \in Dirs(Vol) : NumDentries(inodes[d]) <= VVSFS_MAX_DENTRIES)
    /\ [][AddToFullDir => AddRefused]_vars

\* after the 2160th entry of the root was added, a further create or mkdir
\* has failed with ENOSPC
C31_Witness ==
    /\ steps = 2
    /\ last.op \in {"create", "mkdir"}
    /\ last.err = "ENOSPC"
    /\ NumDentries(inodes[ROOT_INO]) = VVSFS_MAX_DENTRIES
    /\ inodes[ROOT_INO].i_db_count = VVSFS_MAX_INODE_BLOCKS
    /\ Len(last.frees) = 1

\* C32: no double free: in any sequence of namespace operations from a
\* freshly formatted volume, vvsfs_free_block is never called on a position
\* whose bit is already clear; in particular the indirect block of a
\* directory is freed at most once while the directory shrinks from 16
\* blocks to 14.
C32_NoDoubleFree == \A n \in DOMAIN last.frees : last.frees[n][2]

\* the step is a call of vvsfs_dealloc_data_block for a direct block of an
\* inode that has more than 14 blocks
DirectBlockFreed ==
    /\ steps' = steps + 1
    /\ last'.op = "dealloc"
    /\ last'.iblock < LAST
    /\ inodes[last'.ino].i_db_count > LAST

\* the direct pointers after the step are those before it without the one
\* at block_index, in order, followed by the former first indirect pointer
DirectShifted(old, new, block_index, first) ==
    /\ \A k \in 0..(LAST - 2) :
          new.i_data[k] = old.i_data[IF k < block_index THEN k ELSE k + 1]
    /\ new.i_data[LAST - 1] = first

\* C33: shift-back after freeing a direct block (block_index < 14) of an
\* inode with more than 14 blocks leaves i_data[0..12] equal to the previous
\* direct pointers without the freed one, in order, installs the former
\* first indirect pointer at i_data[13], decrements i_db_count exactly once
\* and leaves i_data[14] holding the indirect-block pointer whenever the new
\* i_db_count is still > 14.
C33_ShiftBackDirect ==
    [][DirectBlockFreed =>
          /\ DirectShifted(inodes[last'.ino], inodes'[last'.ino], last'.iblock,
                           read_int_from_buffer(
                               BlockData(Vol, inodes[last'.ino].i_data[LAST]), 0))
          /\ inodes'[last'.ino].i_db_count = inodes[last'.ino].i_db_count - 1
          /\ inodes'[last'.ino].i_db_count > LAST =>
                inodes'[last'.ino].i_data[LAST] = inodes[last'.ino].i_data[LAST]]_vars

\* the part of it that holds: i_db_count is decremented exactly once
ShiftDecrementsOnce ==
    [][DirectBlockFreed =>
          inodes'[last'.ino].i_db_count = inodes[last'.ino].i_db_count - 1]_vars

\* the uses an inode makes of data positions, as <<use, position>>: use k
\* is logical block k (a direct slot or an indirect pointer), use -1 the
\* indirect block
UsesOf(fs, vi) ==
    {<<k, ReadDentriesBlock(fs, vi, k)>> : k \in 0..(vi.i_db_count - 1)}
    \cup (IF vi.i_db_count > LAST THEN {<<-1, vi.i_data[LAST]>>} ELSE {})

\* C34: no aliasing: in every state reachable by namespace operations and
\* file block allocations no data-bitmap position is used twice, neither by
\* two different live inodes nor twice within one inode, the uses of an
\* inode being its direct slots, its indirect payload pointers and its
\* indirect block.
C34_NoAliasing ==
    \A i \in DOMAIN inodes, j \in DOMAIN inodes :
        \A u \in UsesOf(Vol, inodes[i]), v \in UsesOf(Vol, inodes[j]) :
            u[2] = v[2] => i = j /\ u[1] = v[1]

\* the data positions some live inode references
ReferencedBlocks ==
    UNION {OwnedBlocks(inodes[i], BlockData(Vol, inodes[i].i_data[LAST])) : i \in DOMAIN inodes}

\* the inode numbers the entries of the directories name
NamedInodes ==
    UNION {{SlotInoOf(Vol, inodes[d], s) : s \in 0..(NumDentries(inodes[d]) - 1)} : d \in Dirs(Vol)}

\* every set data-bitmap bit other than bit 0 is a referenced block
NoDataLeak == SetBits(dmap) \ {0} \subseteq ReferencedBlocks

\* every set inode-bitmap bit other than bit 0 is a live, linked, named inode
NoInodeLeak ==
    \E named \in {NamedInodes} :
        \A p \in SetBits(imap) \ {0} :
            /\ BNO_TO_INO(p) \in DOMAIN inodes
            /\ inodes[BNO_TO_INO(p)].i_nlink >= 1
            /\ BNO_TO_INO(p) \in named

\* C35: no leak: after every namespace operation, successful or failed with
\* ENOSPC, every set data-bitmap bit other than bit 0 belongs to a block some
\* live inode references, and every set inode-bitmap bit other than bit 0
\* belongs to an inode with link count >= 1 that a directory entry names.
C35_NoLeak ==
    last.op # "get_block" /\ last.err \in {"OK", "ENOSPC"} => NoDataLeak /\ NoInodeLeak

\* the directory slots, over all directories, whose inode_number is ino
SlotsNaming(ino) ==
    {ds \in UNION {{<<d, s>> : s \in 0..(NumDentries(inodes[d]) - 1)} : d \in Dirs(Vol)} :
        SlotInoOf(Vol, inodes[ds[1]], ds[2]) = ino}

\* C36: after every namespace operation, successful or failed, the link
\* count of every live non-root inode equals the number of directory
\* entries, across all directories, whose inode_number is that inode.
C36_LinkCountIsEntries ==
    last.op # "get_block" =>
        \A i \in (DOMAIN inodes) \ {ROOT_INO} :
            inodes[i].i_nlink = Cardinality(SlotsNaming(i))

\* C37: in every reachable state, states after a failed allocation
\* included, i_data[14] # 0 exactly when i_db_count >= 15: the indirect
\* pointer is installed when the 15th block is added and cleared when the
\* block count drops back to 14.
C37_IndirectIffFifteen ==
    \A i \in DOMAIN inodes :
        inodes[i].i_data[LAST] # 0 <=> inodes[i].i_db_count >= VVSFS_N_BLOCKS

\* the operation recorded by rec is an rmdir, or a rename of a directory
\* over an existing directory: the operations that call vvsfs_empty_dir on
\* their victim
ChecksVictim(rec) ==
    \/ rec.op = "rmdir"
    \/ /\ rec.op = "rename"
       /\ rec.ino2 # 0 /\ rec.ino2 # rec.ino
       /\ S_ISDIR(Vol, rec.ino) /\ S_ISDIR(Vol, rec.ino2)

\* the victim of the operation recorded by rec
Victim(rec) == IF rec.op = "rmdir" THEN rec.ino ELSE rec.ino2

\* what vvsfs_empty_dir returns for the victim in the state before the
\* operation, with the unreadable blocks of the operation
VictimCheck(rec) == vvsfs_empty_dir(Faulty(Vol, rec.bad), Victim(rec)).ret

\* C38: when the emptiness check of the victim fails with an error, rmdir
\* and rename over a directory return an error and remove or replace
\* nothing; a directory is removed or overwritten only after the check
\* reported it empty.
C38_CheckErrorRefuses ==
    [][ChecksVictim(last') =>
            /\ VictimCheck(last') < 0 => last'.err # "OK" /\ VolumeUnchanged
            /\ last'.err = "OK" => VictimCheck(last') = 1]_vars

\* the names the two searches are compared on: the names of the first and
\* the last entry, the names the slots of the last block hold, and a name
\* the directory does not hold, as far as they are names the VFS passes on
\* (not empty, at most VVSFS_MAXNAME bytes)
ProbeNames(d) ==
    {name \in SampleNames(Vol, d)
               \cup {SlotName(Vol, inodes[d], s) :
                        s \in {t \in 0..(inodes[d].i_db_count * VVSFS_N_DENTRY_PER_BLOCK - 1) :
                                  t \div VVSFS_N_DENTRY_PER_BLOCK = inodes[d].i_db_count - 1}}
               \cup {<<122>>} :
        Len(name) \in 1..VVSFS_MAXNAME}

\* vvsfs_lookup (l) and vvsfs_find_entry (f) agree on a name of directory d
SearchesAgree(d, l, f) ==
    /\ (l.err = "OK" /\ l.ino # 0) <=> f.err = "OK"
    /\ f.err = "OK" =>
          /\ DentryIno(BlockData(Vol, f.loc.bh), f.loc.d_index) = l.ino
          /\ f.loc.b_index * VVSFS_N_DENTRY_PER_BLOCK + f.loc.d_index < NumDentries(inodes[d])

\* C39: lookup and find agree: in every reachable directory state and for
\* every name, the scan of vvsfs_lookup finds an entry exactly when
\* vvsfs_find_entry reports found, both identify the same inode number, and
\* the (block_index, slot_index) of find is below i_size / 128.
C39_LookupFindAgree ==
    \A d \in Dirs(Vol) : \A name \in ProbeNames(d) :
        SearchesAgree(d, vvsfs_lookup(Vol, d, name), vvsfs_find_entry(Vol, d, name))

\* C40: every call of vvsfs_dealloc_data_block a namespace operation makes
\* has block_index = i_db_count - 1: only the last logical block of a
\* directory is freed, so the shift-back moves no pointer and is never
\* entered with block_index < 14 while i_db_count > 15.
C40_DeallocLastBlock ==
    \A n \in DOMAIN last.deallocs : last.deallocs[n][1] = last.deallocs[n][2] - 1

\* an operation has removed the only entry of the last block of a directory
\* that has more than one block behind its indirect block
C40_Witness ==
    /\ last.op \in {"unlink", "rename"}
    /\ last.err = "OK"
    /\ \E n \in DOMAIN last.deallocs : last.deallocs[n][2] > VVSFS_N_BLOCKS

\* no operation of the explored runs executes undefined behaviour
NoUndefinedBehaviour == ~ub

====
